---- MODULE Spec2Model ----
(***************************************************************************)
(* A model of the serve_adk gateway: the session state-update protocol     *)
(* (app/services/session_service.py, app/services/event_service.py,        *)
(* app/api/sessions.py) and the streaming query orchestrator               *)
(* (app/services/agent_service.py, app/utils/converters.py,                *)
(* app/core/streaming.py).                                                 *)
(*                                                                         *)
(* Python values are modelled as follows.  A dict is a TLA+ function with  *)
(* a set of strings as domain; None and the empty dict are both the empty  *)
(* function (the code only ever tests them for truthiness).  A JSON null   *)
(* inside a state delta is the string "null".                              *)
(***************************************************************************)
EXTENDS Naturals, Sequences, FiniteSets, TLC

VARIABLES
    sessions,   \* the backend's session store: session id -> session
    result,     \* what the last gateway call on the session service returned
    received,   \* backend events the current stream_query has pulled so far
    frames,     \* what the current stream_query has yielded to its consumer
    backend,    \* the backend stream: unopened, open, exhausted or failed
    pc,         \* the stream_query generator: idle, streaming, done or raised
    query,      \* the current AgentService.query call: its locals and outcome
    call,       \* the last read-only call (list_events, list_sessions,
                \* get_conversation_history): what it was given and returned
    factory,    \* the AgentServiceFactory: its cache and what it has done
    race,       \* two get_agent_service calls running statement by statement
    keepalive,  \* one sse_keepalive_generator, its source, clock and consumer
    update      \* one update_state(replace=True) call between its backend calls

sessionVars == <<sessions, result>>
streamVars == <<received, frames, backend, pc>>
vars == <<sessions, result, received, frames, backend, pc, query, call, factory,
          race, keepalive, update>>

\* What a step of one component leaves alone.
exceptSessions == <<streamVars, query, call, factory, race, keepalive, update>>
exceptStream == <<sessionVars, query, call, factory, race, keepalive, update>>
exceptQuery == <<sessionVars, streamVars, call, factory, race, keepalive, update>>
exceptCall == <<sessionVars, streamVars, query, factory, race, keepalive, update>>
exceptFactory == <<sessionVars, streamVars, query, call, race, keepalive, update>>
exceptRace == <<sessionVars, streamVars, query, call, factory, keepalive,
               update>>
exceptKeepalive == <<sessionVars, streamVars, query, call, factory, race,
                    update>>
exceptUpdate == <<streamVars, query, call, factory, race, keepalive>>

(***************************************************************************)
(* Bounds and input domains                                                *)
(***************************************************************************)

\* Longest event log of a session.
MaxEvents == 2

\* Most events one backend stream yields.
MaxStream == 2

\* Longest event log list_events reads, and the largest limit it is given.
MaxLog == 10
MaxLimit == 4

\* Longest log get_conversation_history reads, and the largest max_turns.
MaxHistory == 5
MaxTurns == 4

\* Most attempts to construct the AgentService of one agent.
MaxBuilds == 3

\* Most frames the generator wrapped by sse_keepalive_generator yields, and
\* the latest reading of the event loop's clock.
MaxFrames == 3
MaxTime == 6

None == <<>>
Null == "null"

Keys == {"a", "b"}
Vals == {"v0", "v1"}
SessionIds == {"s1"}
SessionIdOrder == <<"s1">>

\* u1 creates the sessions; u2 is the user who does not own them.
Owners == {"u1"}
Users == {"u1", "u2"}

\* Every session state over Keys, and every state delta (null allowed).
States == UNION {[K -> Vals] : K \in SUBSET Keys}
Deltas == UNION {[K -> Vals \cup {Null}] : K \in SUBSET Keys}

\* initial_state values a caller passes to create_session.
InitialStates == {None, [a |-> "v0", b |-> "v1"]}

\* EventAppendRequests a caller sends to append_event: a plain message, a
\* bare state delta, a message with a deleting delta, a bare escalation and
\* an empty event.  escalate is "None" when unset.
AppendRequest(text, delta, escalate) ==
    [user_id |-> "u1", author |-> "user", content_text |-> text,
     content_role |-> "user", state_delta |-> delta, escalate |-> escalate]

AppendRequests ==
    {AppendRequest("hi", None, "None"),
     AppendRequest("", [a |-> "v1"], "None"),
     AppendRequest("hi", [b |-> Null], "None"),
     AppendRequest("", None, "true"),
     AppendRequest("", None, "None")}

IsTruthy(d) == DOMAIN d # {}

(***************************************************************************)
(* The backend (Vertex AI Agent Engine sessions API), as the gateway       *)
(* consumes it.                                                            *)
(***************************************************************************)

NoSession == [status |-> "none", user_id |-> "", state |-> None, events |-> <<>>]

\* A state delta merged into a state key by key; a null value deletes the key.
ApplyDelta(state, delta) ==
    LET deleted == {k \in DOMAIN delta : delta[k] = Null}
        keys == (DOMAIN state \cup DOMAIN delta) \ deleted
    IN  [k \in keys |-> IF k \in DOMAIN delta THEN delta[k] ELSE state[k]]

ConfigStateDelta(config) ==
    IF "actions" \in DOMAIN config /\ "state_delta" \in DOMAIN config.actions
    THEN config.actions.state_delta
    ELSE None

\* sessions.create(name, user_id, config): a new session holding config["state"].
BackendCreate(store, sid, user_id, config) ==
    [store EXCEPT ![sid] =
        [status |-> "live",
         user_id |-> user_id,
         state |-> IF "state" \in DOMAIN config THEN config.state ELSE None,
         events |-> <<>>]]

\* sessions.events.append(name, author, invocation_id, timestamp, config):
\* the event joins the log and its state delta is merged into the state.
BackendAppend(store, sid, author, config) ==
    [store EXCEPT ![sid] =
        [@ EXCEPT !.events = Append(@, [author |-> author, config |-> config]),
                  !.state = ApplyDelta(@, ConfigStateDelta(config))]]

\* sessions.delete(name)
BackendDelete(store, sid) ==
    [store EXCEPT ![sid] = [NoSession EXCEPT !.status = "deleted"]]

BackendHas(store, sid) == sid \in DOMAIN store /\ store[sid].status = "live"

(***************************************************************************)
(* SessionService and EventService                                         *)
(***************************************************************************)

\* SessionService._session_to_response
session_to_response(session, sid) ==
    [session_id |-> sid,
     user_id |-> session.user_id,
     state |-> IF IsTruthy(session.state) THEN session.state ELSE None]

\* SessionService.create_session: the config handed to sessions.create.
create_config(initial_state) ==
    IF IsTruthy(initial_state) THEN [state |-> initial_state] ELSE None

\* get_session that lets the backend's error through unconverted.
get_session_raising_raw(store, sid, user_id) ==
    IF ~BackendHas(store, sid)
    THEN [err |-> "NotFound", session |-> None]
    ELSE IF user_id # "" /\ store[sid].user_id # user_id
    THEN [err |-> "PermissionError", session |-> None]
    ELSE [err |-> "none", session |-> session_to_response(store[sid], sid)]

\* SessionService.get_session: the backend's "not found" becomes
\* SessionNotFoundError, a foreign user_id raises PermissionError.
get_session(store, sid, user_id) ==
    IF ~BackendHas(store, sid)
    THEN [err |-> "SessionNotFoundError", session |-> None]
    ELSE IF user_id # "" /\ store[sid].user_id # user_id
    THEN [err |-> "PermissionError", session |-> None]
    ELSE [err |-> "none", session |-> session_to_response(store[sid], sid)]

\* EventService.append_event, "Build config": content only for a non-empty
\* text, actions only when some action field is set, state_delta only when
\* the delta is non-empty.
append_config_no_delta(request) ==
    (IF request.content_text # ""
     THEN [content |-> [role |-> request.content_role,
                        parts |-> <<[text |-> request.content_text]>>]]
     ELSE None)
    @@
    (IF request.escalate # "None"
     THEN [actions |-> [escalate |-> request.escalate]]
     ELSE None)

append_config(request) ==
    (IF request.content_text # ""
     THEN [content |-> [role |-> request.content_role,
                        parts |-> <<[text |-> request.content_text]>>]]
     ELSE None)
    @@
    (IF IsTruthy(request.state_delta) \/ request.escalate # "None"
     THEN [actions |->
            (IF IsTruthy(request.state_delta)
             THEN [state_delta |-> request.state_delta] ELSE None)
            @@
            (IF request.escalate # "None"
             THEN [escalate |-> request.escalate] ELSE None)]
     ELSE None)

\* EventService.append_event.  rejects: the backend refuses this append.
\* Every failure leaves as EventAppendError.
append_event(store, sid, request, rejects) ==
    IF ~BackendHas(store, sid) \/ rejects
    THEN [err |-> "EventAppendError", store |-> store, session_state |-> None]
    ELSE LET after == BackendAppend(store, sid, request.author,
                                    append_config(request))
         IN  [err |-> "none", store |-> after,
              session_state |-> after[sid].state]

\* SessionService.update_state, replace=True: every current key mapped to
\* null, the caller's delta on top.
clear_delta(state) == [k \in DOMAIN state |-> Null]

replace_delta_clear_wins(state, state_delta) == clear_delta(state) @@ state_delta

replace_delta(state, state_delta) == state_delta @@ clear_delta(state)

SummaryText(n) ==
    CASE n = 0 -> "State updated: 0 keys"
      [] n = 1 -> "State updated: 1 keys"
      [] OTHER -> "State updated: 2 keys"

\* SessionService.update_state: the EventAppendRequest it synthesizes.
state_event_request_as_user(user_id, state_delta) ==
    [user_id |-> user_id,
     author |-> "user",
     content_text |-> SummaryText(Cardinality(DOMAIN state_delta)),
     content_role |-> "system",
     state_delta |-> state_delta,
     escalate |-> "None"]

state_event_request(user_id, state_delta) ==
    [user_id |-> user_id,
     author |-> "system",
     content_text |-> SummaryText(Cardinality(DOMAIN state_delta)),
     content_role |-> "system",
     state_delta |-> state_delta,
     escalate |-> "None"]

\* SessionService.update_state.  Any exception inside leaves as
\* InvalidStateUpdateError; store is the backend store when the call ends.
update_state(store, sid, request, rejects) ==
    LET current == get_session(store, sid, request.user_id)
        state_delta == IF request.replace
                       THEN replace_delta(current.session.state, request.state_delta)
                       ELSE request.state_delta
        appended == append_event(store, sid,
                                 state_event_request(request.user_id, state_delta),
                                 rejects)
        updated == get_session(appended.store, sid, request.user_id)
    IN  IF request.replace /\ current.err # "none"
        THEN [err |-> "InvalidStateUpdateError", store |-> store, session |-> None]
        ELSE IF appended.err # "none"
        THEN [err |-> "InvalidStateUpdateError", store |-> store, session |-> None]
        ELSE IF updated.err # "none"
        THEN [err |-> "InvalidStateUpdateError", store |-> appended.store,
              session |-> None]
        ELSE [err |-> "none", store |-> appended.store, session |-> updated.session]

\* SessionService.delete_session
delete_session(store, sid, user_id) ==
    LET owned == get_session(store, sid, user_id)
    IN  IF user_id # "" /\ owned.err # "none"
        THEN [err |-> owned.err, store |-> store]
        ELSE IF ~BackendHas(store, sid)
        THEN [err |-> "SessionNotFoundError", store |-> store]
        ELSE [err |-> "none", store |-> BackendDelete(store, sid)]

\* app/api/sessions.py update_session_state: the HTTP status of each outcome.
update_session_state_status(err) ==
    CASE err = "none" -> 200
      [] err = "SessionNotFoundError" -> 404
      [] err = "InvalidStateUpdateError" -> 400
      [] OTHER -> 500

\* The message of each error the services raise (str(e) in the routes).
error_message(err, sid) ==
    CASE err = "SessionNotFoundError" -> "Session '" \o sid \o "' not found"
      [] err = "InvalidStateUpdateError" -> "Invalid state update: failed"
      [] err = "EventAppendError" -> "Failed to append event: failed"
      [] OTHER -> "failed"

\* The except clauses of the session and event routes: the status of the
\* HTTPException each route raises for an error of its service.
route_status(op, err) ==
    CASE err = "none" -> 200
      [] op = "update_state" -> update_session_state_status(err)
      [] op = "append_event" /\ err = "SessionNotFoundError" -> 404
      [] op = "append_event" /\ err = "EventAppendError" -> 400
      [] op \in {"get_session", "delete_session", "list_events"}
         /\ err = "SessionNotFoundError" -> 404
      [] OTHER -> 500

\* What the framework answers to HTTPException(status_code, detail); main.py
\* registers no exception handler of its own.
http_exception_response(status_code, detail) ==
    [status_code |-> status_code, body |-> [detail |-> detail]]

\* The answer of a route: 200 with the service's value (kept in the result)
\* or the answer to the HTTPException the route raises.
route_response(op, err, sid) ==
    IF err = "none"
    THEN [status_code |-> 200]
    ELSE http_exception_response(route_status(op, err),
                                 error_message(err, sid))

\* status_code of the exception classes of app/core/errors.py; 500 is that
\* of the base class and of an exception that is no ADKProxyError.
error_status_code(err) ==
    CASE err = "AgentNotFoundError" -> 404
      [] err = "SessionNotFoundError" -> 404
      [] err = "InvalidStateUpdateError" -> 400
      [] err = "EventAppendError" -> 500
      [] err = "AgentEngineError" -> 502
      [] err = "AuthenticationError" -> 401
      [] OTHER -> 500

\* adk_proxy_error_handler and general_exception_handler, which no
\* application installs: the answer they would give to an error.
adk_proxy_error_handler(err, sid) ==
    [status_code |-> error_status_code(err),
     body |-> [error |-> [message |-> error_message(err, sid),
                          type |-> err,
                          details |-> IF err = "SessionNotFoundError"
                                      THEN [session_id |-> sid] ELSE None]]]

general_exception_handler(err, path) ==
    [status_code |-> 500,
     body |-> [error |-> [message |-> "Internal server error",
                          type |-> "InternalServerError",
                          details |-> [exception |-> err, path |-> path]]]]

(***************************************************************************)
(* Backend events and their conversion (app/utils/converters.py)           *)
(*                                                                         *)
(* A typed object (google.adk Event, genai Content and Part, EventActions) *)
(* is a record holding every attribute; an unset attribute is None, or ""  *)
(* for a string, or "None" for an optional flag.  A dict holds only the    *)
(* keys it has.  The field pytype tells an Event object from a dict.       *)
(***************************************************************************)

Part(text, function_call, function_response) ==
    [text |-> text, function_call |-> function_call,
     function_response |-> function_response,
     file_data |-> None, inline_data |-> None]

TextPart(text) == Part(text, None, None)
CallPart == Part("", [name |-> "lookup", args |-> [q |-> "x"]], None)
ResponsePart == Part("", None, [name |-> "lookup", response |-> [r |-> "y"]])

Content(role, parts) == [role |-> role, parts |-> parts]

EventActions(state_delta) ==
    [state_delta |-> state_delta, artifact_delta |-> None,
     transfer_to_agent |-> "", escalate |-> "None"]

AdkEvent(id, content, actions, partial) ==
    [pytype |-> "Event", id |-> id, author |-> "model",
     invocation_id |-> "inv1", timestamp |-> 1,
     content |-> content, actions |-> actions,
     partial |-> partial, turn_complete |-> "None", finish_reason |-> ""]

EventContents ==
    {Content("model", <<TextPart("Hel")>>),
     Content("model", <<CallPart>>),
     Content("model", <<ResponsePart>>),
     Content("model", <<TextPart("lo "), CallPart>>),
     Content("model", <<TextPart("Hel"), TextPart("lo ")>>)}

\* The typed events a backend stream may yield: without content or with one
\* of EventContents; without actions, with an EventActions that sets
\* nothing, or with one carrying a state delta; partial unset or set.
TypedEvents ==
    {AdkEvent("e1", None, a, p) :
        a \in {None, EventActions(None), EventActions([a |-> "v1"])},
        p \in {"None", "true"}}
    \cup
    {AdkEvent("e2", c, a, p) :
        c \in EventContents,
        a \in {None, EventActions(None), EventActions([a |-> "v1"])},
        p \in {"None", "true"}}

\* The dict events a backend stream may yield: async_stream_query hands out
\* plain mappings, whose keys are the backend's choice.
DictEvents ==
    {[id |-> "d1", author |-> "model", invocation_id |-> "inv1", timestamp |-> 1,
      content |-> [role |-> "model", parts |-> <<[text |-> "world"]>>]],
     [id |-> "d2", author |-> "model", invocation_id |-> "inv1", timestamp |-> 1,
      content |-> [role |-> "model",
                   parts |-> <<[function_call |->
                                  [name |-> "lookup", args |-> [q |-> "x"]]]>>],
      actions |-> [state_delta |-> [a |-> "v1"]]],
     [id |-> "d3", author |-> "model", invocation_id |-> "inv1", timestamp |-> 1,
      content |-> [role |-> "model",
                   parts |-> <<[function_response |->
                                  [name |-> "lookup", response |-> [r |-> "y"]]]>>],
      usage_metadata |-> [total_token_count |-> "7"]],
     [author |-> "model",
      content |-> [role |-> "model", parts |-> <<[text |-> "Hel"]>>]],
     [id |-> "d5", author |-> "model", invocation_id |-> "inv2", timestamp |-> 1,
      session_id |-> "s2",
      content |-> [role |-> "model", parts |-> <<[text |-> "world"]>>]]}

BackendEvents == TypedEvents \cup DictEvents

\* isinstance(event, dict)
IsDict(event) == "pytype" \notin DOMAIN event

\* part_to_dict: each of the five fields only when set.
part_to_dict(part) ==
    (IF part.text # "" THEN [text |-> part.text] ELSE None)
    @@
    (IF part.function_call # None
     THEN [function_call |-> [name |-> part.function_call.name,
                              args |-> part.function_call.args]]
     ELSE None)
    @@
    (IF part.function_response # None
     THEN [function_response |-> [name |-> part.function_response.name,
                                  response |-> part.function_response.response]]
     ELSE None)
    @@
    (IF part.file_data # None
     THEN [file_data |-> [file_uri |-> part.file_data.file_uri,
                          mime_type |-> part.file_data.mime_type]]
     ELSE None)
    @@
    (IF part.inline_data # None
     THEN [inline_data |-> [mime_type |-> part.inline_data.mime_type,
                            data |-> part.inline_data.data]]
     ELSE None)

\* content_to_dict
content_to_dict(content) ==
    IF content = None
    THEN None
    ELSE [role |-> content.role,
          parts |-> [i \in 1..Len(content.parts) |-> part_to_dict(content.parts[i])]]

\* event_actions_to_dict: each field only when set.
event_actions_to_dict_no_state(actions) ==
    IF actions = None
    THEN None
    ELSE (IF IsTruthy(actions.artifact_delta)
          THEN [artifact_delta |-> actions.artifact_delta] ELSE None)
         @@
         (IF actions.transfer_to_agent # ""
          THEN [transfer_to_agent |-> actions.transfer_to_agent] ELSE None)
         @@
         (IF actions.escalate # "None"
          THEN [escalate |-> actions.escalate] ELSE None)

event_actions_to_dict(actions) ==
    IF actions = None
    THEN None
    ELSE (IF IsTruthy(actions.state_delta)
          THEN [state_delta |-> actions.state_delta] ELSE None)
         @@
         (IF IsTruthy(actions.artifact_delta)
          THEN [artifact_delta |-> actions.artifact_delta] ELSE None)
         @@
         (IF actions.transfer_to_agent # ""
          THEN [transfer_to_agent |-> actions.transfer_to_agent] ELSE None)
         @@
         (IF actions.escalate # "None"
          THEN [escalate |-> actions.escalate] ELSE None)

\* adk_event_to_dict, the Event branch.  A Content or EventActions object is
\* truthy whatever it holds, so the key is added whenever the attribute is
\* not None.
event_object_to_dict(event) ==
    [id |-> event.id, author |-> event.author,
     invocation_id |-> event.invocation_id, timestamp |-> event.timestamp]
    @@
    (IF event.content # None
     THEN [content |-> content_to_dict(event.content)] ELSE None)
    @@
    (IF event.actions # None
     THEN [actions |-> event_actions_to_dict(event.actions)] ELSE None)
    @@
    (IF event.partial # "None" THEN [partial |-> event.partial] ELSE None)
    @@
    (IF event.turn_complete # "None"
     THEN [turn_complete |-> event.turn_complete] ELSE None)
    @@
    (IF event.finish_reason # ""
     THEN [finish_reason |-> event.finish_reason] ELSE None)

\* A dict rebuilt from the four identity keys instead of being returned as is.
adk_event_to_dict_rebuilding(event) ==
    IF IsDict(event)
    THEN [k \in DOMAIN event \cap {"id", "author", "invocation_id", "timestamp"}
            |-> event[k]]
    ELSE event_object_to_dict(event)

\* adk_event_to_dict: a dict is returned as it is, an Event is converted.
adk_event_to_dict(event) ==
    IF IsDict(event) THEN event ELSE event_object_to_dict(event)

(***************************************************************************)
(* AgentService.stream_query (app/services/agent_service.py)               *)
(***************************************************************************)

\* "yield event_dict": the consumer receives the dict after those before it.
yield_first(yielded, event_dict) == <<event_dict>> \o yielded

yield(yielded, event_dict) == Append(yielded, event_dict)

\* The consumer starts the generator: the agent handle is there, the backend
\* stream is opened.  Nothing is yielded.
StreamStart ==
    /\ pc = "idle"
    /\ pc' = "streaming"
    /\ backend' = "open"
    /\ UNCHANGED <<received, frames, exceptStream>>

\* The stream going on after its consumer has closed it.
StreamEventDraining(event) ==
    /\ pc \in {"streaming", "closed"}
    /\ Len(received) < MaxStream
    /\ received' = Append(received, event)
    /\ frames' = yield(frames, adk_event_to_dict(event))
    /\ UNCHANGED <<backend, pc, exceptStream>>

\* The backend stream hands out its next event, which is converted and
\* yielded in the same step.
StreamEvent(event) ==
    /\ pc = "streaming"
    /\ Len(received) < MaxStream
    /\ received' = Append(received, event)
    /\ frames' = yield(frames, adk_event_to_dict(event))
    /\ UNCHANGED <<backend, pc, exceptStream>>

\* The backend stream ends: the generator returns.
StreamEnd ==
    /\ pc = "streaming"
    /\ backend' = "exhausted"
    /\ pc' = "done"
    /\ UNCHANGED <<received, frames, exceptStream>>

\* The backend stream raises: the exception is logged and raised again, as
\* AgentEngineError, to whoever consumes the generator.
StreamFail ==
    /\ pc = "streaming"
    /\ backend' = "failed"
    /\ pc' = "raised"
    /\ UNCHANGED <<received, frames, exceptStream>>

\* What reaches the generator when its consumer goes away: GeneratorExit
\* thrown in at the yield by aclose(), or CancelledError raised in the await
\* on the backend stream when the consuming task is cancelled.
Cancellations == {"GeneratorExit", "CancelledError"}

\* "except Exception" catches neither: both derive from BaseException only.
caught_by_except_exception(exc) ==
    exc \notin {"GeneratorExit", "CancelledError", "KeyboardInterrupt",
                "SystemExit"}

\* The consumer closes the stream it has started.  The exception passes the
\* except clause and ends the generator; a caught one would leave as
\* AgentEngineError.  The backend stream is not asked again and is not
\* closed by this code: it stays as it was.
StreamClose(exc) ==
    /\ pc = "streaming"
    /\ pc' = IF caught_by_except_exception(exc) THEN "raised" ELSE "closed"
    /\ UNCHANGED <<received, frames, backend, exceptStream>>

(***************************************************************************)
(* AgentService.query (app/services/agent_service.py)                      *)
(***************************************************************************)

\* QueryRequest: session_id is "" when the caller gives none.
QueryRequests == [user_id : Users, session_id : {"", "s1"}]

\* The parts joined last to first.
RECURSIVE parts_text_reversed(_)
parts_text_reversed(parts) ==
    IF parts = <<>>
    THEN ""
    ELSE parts_text_reversed(Tail(parts))
         \o (IF "text" \in DOMAIN Head(parts) THEN Head(parts).text ELSE "")

\* The texts of the parts of a converted content, joined in part order:
\* the loop "for part in content['parts']".
RECURSIVE parts_text(_)
parts_text(parts) ==
    IF parts = <<>>
    THEN ""
    ELSE (IF "text" \in DOMAIN Head(parts) /\ Head(parts).text # ""
          THEN Head(parts).text ELSE "")
         \o parts_text(Tail(parts))

\* What one event adds to final_response.
event_text(event_dict) ==
    IF "content" \in DOMAIN event_dict /\ event_dict.content # None
    THEN IF "parts" \in DOMAIN event_dict.content
         THEN parts_text(event_dict.content.parts)
         ELSE ""
    ELSE ""

\* session_id after one event: taken from the event only while still unset.
next_session_id(session_id, event_dict) ==
    IF session_id = "" /\ "invocation_id" \in DOMAIN event_dict
    THEN event_dict.invocation_id
    ELSE session_id

\* _extract_usage_metadata: that of the latest event that has one.
RECURSIVE extract_usage_metadata(_)
extract_usage_metadata(events) ==
    IF events = <<>>
    THEN None
    ELSE IF "usage_metadata" \in DOMAIN events[Len(events)]
         THEN events[Len(events)].usage_metadata
         ELSE extract_usage_metadata(SubSeq(events, 1, Len(events) - 1))

\* f"new-session-{request.user_id}"
placeholder_session_id(user_id) == "new-session-" \o user_id

\* QueryResponse
QueryResponse(session_id, user_id, final_response, events_list) ==
    [session_id |-> IF session_id # "" THEN session_id
                    ELSE placeholder_session_id(user_id),
     response |-> final_response,
     events |-> events_list,
     usage_metadata |-> extract_usage_metadata(events_list)]

\* query holds the call's position (idle, streaming, returned, raised), its
\* request, the backend stream (unopened, open, exhausted, failed), the
\* backend events pulled so far (stream), the locals events_list, final_response and session_id,
\* and the outcome: the QueryResponse returned or the error raised with its
\* status code.
NoQuery ==
    [pc |-> "idle", request |-> None, backend |-> "unopened", stream |-> <<>>,
     events_list |-> <<>>, final_response |-> "", session_id |-> "",
     response |-> None, err |-> "none", status_code |-> 0,
     original_error |-> ""]

\* What the backend stream may raise.
BackendFailures == {"deadline exceeded", "unavailable"}

InitQuery == query = NoQuery

\* The call begins: without an agent handle it raises AgentNotFoundError at
\* once; with one it sets its locals and opens the backend stream.
QueryStart(request, has_agent) ==
    /\ query.pc = "idle"
    /\ query' = IF ~has_agent
                THEN [NoQuery EXCEPT !.pc = "raised", !.request = request,
                                     !.err = "AgentNotFoundError",
                                     !.status_code = 404]
                ELSE [NoQuery EXCEPT !.pc = "streaming", !.request = request,
                                     !.backend = "open",
                                     !.session_id = request.session_id]
    /\ UNCHANGED exceptQuery

\* One iteration of the async for loop.
QueryEvent(event) ==
    /\ query.pc = "streaming"
    /\ Len(query.stream) < MaxStream
    /\ LET event_dict == adk_event_to_dict(event)
       IN  query' = [query EXCEPT
                       !.stream = Append(@, event),
                       !.events_list = Append(@, event_dict),
                       !.final_response = @ \o event_text(event_dict),
                       !.session_id = next_session_id(@, event_dict)]
    /\ UNCHANGED exceptQuery

\* The backend stream ends: the QueryResponse is returned.
QueryEnd ==
    /\ query.pc = "streaming"
    /\ query' = [query EXCEPT
                   !.pc = "returned", !.backend = "exhausted",
                   !.response = QueryResponse(query.session_id,
                                              query.request.user_id,
                                              query.final_response,
                                              query.events_list)]
    /\ UNCHANGED exceptQuery

\* The backend stream raises and what was gathered so far is returned.
QueryFailPartial ==
    /\ query.pc = "streaming"
    /\ query.stream # <<>>
    /\ query' = [query EXCEPT
                   !.pc = "returned", !.backend = "failed",
                   !.response = QueryResponse(query.session_id,
                                              query.request.user_id,
                                              query.final_response,
                                              query.events_list)]
    /\ UNCHANGED exceptQuery

\* The backend stream raises: AgentEngineError is raised with the cause in
\* its details, nothing is returned.
QueryFail ==
    /\ query.pc = "streaming"
    /\ \E cause \in BackendFailures :
          query' = [query EXCEPT !.pc = "raised", !.backend = "failed",
                                 !.err = "AgentEngineError",
                                 !.status_code = 502,
                                 !.original_error = cause]
    /\ UNCHANGED exceptQuery

NextQuery ==
    \/ \E request \in QueryRequests, has_agent \in BOOLEAN :
            QueryStart(request, has_agent)
    \/ \E event \in BackendEvents : QueryEvent(event)
    \/ QueryEnd
    \/ QueryFail

(***************************************************************************)
(* EventService.list_events (app/services/event_service.py)                *)
(***************************************************************************)

\* The event at a 0-indexed position of a session's log, as the backend's
\* list_session_events hands it out: a typed event, its id naming its
\* position.
LogEvent(position, author) ==
    [AdkEvent(ToString(position), Content(author, <<TextPart("Hel")>>),
              EventActions(None), "None")
       EXCEPT !.author = author]

\* The log whose events have the given authors, in order.
Log(authors) ==
    [i \in 1..Len(authors) |-> LogEvent(i - 1, authors[i])]

\* The logs list_events is run on: n events, n up to MaxLog.
Logs == {Log([i \in 1..n |-> "model"]) : n \in 0..MaxLog}

\* limit and offset: 0 stands for a value not given (None and 0 are both
\* falsy where the code tests them).
Limits == 0..MaxLimit
Offsets == 0..(MaxLog + 1)

NoCall == [op |-> "none"]

InitCall == call = NoCall

\* The for loop of list_events from the i-th event of the backend iterator
\* on, with the locals count and events; 0 stands for a limit or offset that
\* is None or 0, which the loop's tests do not tell apart.  Beside the
\* events it returns, the loop is followed in what it does to reach them:
\* pulled counts the items taken from the backend iterator and normalized
\* lists the positions of the items handed to adk_event_to_dict.
RECURSIVE list_events_loop(_, _, _, _, _, _, _)
list_events_loop(log, i, count, events, limit, offset, normalized) ==
    IF i > Len(log)
    THEN [events |-> events, pulled |-> Len(log), normalized |-> normalized]
    ELSE IF offset # 0 /\ count < offset
         THEN list_events_loop(log, i + 1, count + 1, events, limit, offset,
                               normalized)
         ELSE LET appended == Append(events, adk_event_to_dict(log[i]))
                  converted == Append(normalized, i)
              IN  IF limit # 0 /\ Len(appended) >= limit
                  THEN [events |-> appended, pulled |-> i,
                        normalized |-> converted]
                  ELSE list_events_loop(log, i + 1, count + 1, appended,
                                        limit, offset, converted)

\* The window cut out of the whole log after converting all of it.
list_events_run_materializing(log, limit, offset) ==
    LET all == [i \in 1..Len(log) |-> adk_event_to_dict(log[i])]
        from == IF offset < Len(log) THEN offset + 1 ELSE Len(log) + 1
        to == IF limit # 0 /\ offset + limit < Len(log)
              THEN offset + limit ELSE Len(log)
    IN  [events |-> SubSeq(all, from, to), pulled |-> Len(log),
         normalized |-> [i \in 1..Len(log) |-> i]]

\* One run of the loop of list_events from the start of the iterator.
list_events_run(log, limit, offset) ==
    list_events_loop(log, 1, 0, <<>>, limit, offset, <<>>)

\* The loop without the skip of the first offset events.
list_events_no_skip(log, limit, offset) ==
    list_events_run(log, limit, 0).events

\* The loop skipping one event more than offset.
list_events_skip_more(log, limit, offset) ==
    list_events_run(log, limit, offset + 1).events

list_events(log, limit, offset) ==
    list_events_run(log, limit, offset).events

\* The limit a caller passes: None, or an integer, 0 included.
LimitArgs == {None} \cup {<<n>> : n \in Limits}

\* An optional integer as the test `if limit and ...` sees it.
falsy_as_zero(arg) == IF arg = None THEN 0 ELSE arg[1]

ListEvents(log, limit_arg, offset) ==
    LET limit == falsy_as_zero(limit_arg)
        run == list_events_run(log, limit, offset)
    IN  /\ call' = [op |-> "list_events", log |-> log, limit_arg |-> limit_arg,
                    limit |-> limit, offset |-> offset,
                    out |-> list_events(log, limit, offset),
                    pulled |-> run.pulled, normalized |-> run.normalized]
        /\ UNCHANGED exceptCall

NextListEvents ==
    \E log \in Logs, limit_arg \in LimitArgs, offset \in Offsets :
        ListEvents(log, limit_arg, offset)

(***************************************************************************)
(* SessionService.list_sessions (app/services/session_service.py)          *)
(***************************************************************************)

\* sep.join(strings)
RECURSIVE join(_, _)
join(sep, strings) ==
    IF strings = <<>> THEN ""
    ELSE IF Len(strings) = 1 THEN Head(strings)
    ELSE Head(strings) \o sep \o join(sep, Tail(strings))

\* Arguments of list_sessions; "" stands for an argument that is None (the
\* code tests them for truthiness).  page_size is at least 1 on both routes.
UserFilters == {"", "u1", "u2"}
FilterExprs == {"", "state.a=v0", "create_time>1 OR state.b=v1"}
PageSizes == {1, 50, 100}
PageTokens == {"", "tok1"}
OrderBys == {"", "create_time desc"}

\* What the backend's sessions.list may hand out.
BackendListings ==
    {<<>>,
     <<[sid |-> "s1",
        session |-> [status |-> "live", user_id |-> "u1",
                     state |-> [a |-> "v0"], events |-> <<>>]]>>}

\* "Build filter" with the user clause written even without a user.
list_sessions_filters_always_user(user_id, filter_expr) ==
    <<"user_id=" \o (IF user_id # "" THEN user_id ELSE "None")>>
    \o (IF filter_expr # "" THEN <<filter_expr>> ELSE <<>>)

\* "Build filter": the list filters.
list_sessions_filters(user_id, filter_expr) ==
    (IF user_id # "" THEN <<"user_id=" \o user_id>> ELSE <<>>)
    \o (IF filter_expr # "" THEN <<filter_expr>> ELSE <<>>)

\* The config handed to sessions.list: each key only when its value is set.
list_sessions_config(user_id, page_size, page_token, filter_expr, order_by) ==
    LET filters == list_sessions_filters(user_id, filter_expr)
    IN  (IF filters # <<>> THEN [filter |-> join(" AND ", filters)] ELSE None)
        @@ (IF page_size # 0 THEN [page_size |-> page_size] ELSE None)
        @@ (IF page_token # "" THEN [page_token |-> page_token] ELSE None)
        @@ (IF order_by # "" THEN [order_by |-> order_by] ELSE None)

\* SessionListResponse built from what the backend handed out.
list_sessions_response(listed) ==
    [sessions |-> [i \in 1..Len(listed) |->
                      session_to_response(listed[i].session, listed[i].sid)],
     next_page_token |-> "",
     total_count |-> Len(listed)]

\* sessions.list over a store: the live sessions, those of one user when
\* the filter names a user, in the order of their ids.
BackendList(store, user_id) ==
    LET ids == SelectSeq(SessionIdOrder,
                         LAMBDA sid : /\ store[sid].status = "live"
                                      /\ user_id # ""
                                         => store[sid].user_id = user_id)
    IN  [i \in 1..Len(ids) |-> [sid |-> ids[i], session |-> store[ids[i]]]]

\* The page tokens a caller sends: none, or one a response might have held.
EventPageTokens == {"", "1"}

\* EventService.list_events_async on a session of a store: the loop runs
\* from the start of the backend iterator and breaks after page_size
\* events; page_token, filter_expr and order_by are not read, and
\* next_page_token is always None ("").  The store keeps an event as the
\* author and config it was appended with.
list_events_async(store, sid, page_size, page_token) ==
    IF ~BackendHas(store, sid)
    THEN [err |-> "SessionNotFoundError", events |-> <<>>,
          next_page_token |-> "", total_count |-> 0]
    ELSE LET log == store[sid].events
             n == IF page_size # 0 /\ page_size < Len(log)
                  THEN page_size ELSE Len(log)
         IN  [err |-> "none", events |-> SubSeq(log, 1, n),
              next_page_token |-> "", total_count |-> n]

\* list_sessions: call records the arguments, the config sent to the backend
\* and the response returned.
ListSessions(user_id, page_size, page_token, filter_expr, order_by, listed) ==
    /\ call' = [op |-> "list_sessions", user_id |-> user_id,
                page_size |-> page_size, page_token |-> page_token,
                filter_expr |-> filter_expr, order_by |-> order_by,
                config |-> list_sessions_config(user_id, page_size, page_token,
                                                filter_expr, order_by),
                out |-> list_sessions_response(listed)]
    /\ UNCHANGED exceptCall

NextListSessions ==
    \E user_id \in UserFilters, page_size \in PageSizes,
       page_token \in PageTokens, filter_expr \in FilterExprs,
       order_by \in OrderBys, listed \in BackendListings :
        ListSessions(user_id, page_size, page_token, filter_expr, order_by,
                     listed)

(***************************************************************************)
(* EventService.get_conversation_history (app/services/event_service.py)   *)
(***************************************************************************)

Authors == {"user", "agent", "model", "system"}

\* The logs get_conversation_history is run on: every sequence of authors
\* up to MaxHistory events.
HistoryLogs ==
    {Log(authors) : authors \in UNION {[1..n -> Authors] : n \in 0..MaxHistory}}

\* max_turns: <<>> when the caller gives none, <<N>> when it gives N.
MaxTurnsArgs == {<<>>} \cup {<<n>> : n \in 0..MaxTurns}

\* {"user": None, "agent": None}
EmptyTurn == [user |-> None, agent |-> None]

\* The for loop over the events with the locals conversations and
\* current_turn; it returns both.
RECURSIVE conversation_loop(_, _, _)
conversation_loop(events, conversations, current_turn) ==
    IF events = <<>>
    THEN [conversations |-> conversations, current_turn |-> current_turn]
    ELSE LET event == Head(events)
         IN  IF event.author = "user"
             THEN IF current_turn.user # None
                  THEN conversation_loop(Tail(events),
                                         Append(conversations, current_turn),
                                         [EmptyTurn EXCEPT !.user = event])
                  ELSE conversation_loop(Tail(events), conversations,
                                         [current_turn EXCEPT !.user = event])
             ELSE IF event.author \in {"agent", "model"}
                  THEN conversation_loop(Tail(events), conversations,
                                         [current_turn EXCEPT !.agent = event])
                  ELSE conversation_loop(Tail(events), conversations,
                                         current_turn)

\* conversations[-n:]
last_turns(conversations, n) ==
    IF n >= Len(conversations)
    THEN conversations
    ELSE SubSeq(conversations, Len(conversations) - n + 1, Len(conversations))

\* "if max_turns:" holds for a given max_turns other than 0.
apply_max_turns(conversations, max_turns) ==
    IF max_turns # <<>> /\ max_turns[1] # 0
    THEN last_turns(conversations, max_turns[1])
    ELSE conversations

get_conversation_history(log, max_turns) ==
    LET events == list_events(log, 0, 0)
        looped == conversation_loop(events, <<>>, EmptyTurn)
        conversations ==
            IF looped.current_turn.user # None
            THEN Append(looped.conversations, looped.current_turn)
            ELSE looped.conversations
    IN  apply_max_turns(conversations, max_turns)

\* One call of get_conversation_history in a behaviour.
GetConversationHistory(log, max_turns) ==
    /\ call.op = "none"
    /\ call' = [op |-> "get_conversation_history", log |-> log,
                max_turns |-> max_turns,
                out |-> get_conversation_history(log, max_turns)]
    /\ UNCHANGED exceptCall

NextHistory ==
    \E log \in HistoryLogs, max_turns \in MaxTurnsArgs :
        GetConversationHistory(log, max_turns)

(***************************************************************************)
(* AgentServiceFactory (app/services/agent_service.py)                     *)
(***************************************************************************)

\* settings.agents: X and W are configured and enabled, Y is configured and
\* disabled; Z is an agent id that is not configured.
ConfiguredAgents ==
    [X |-> [enabled |-> TRUE], W |-> [enabled |-> TRUE], Y |-> [enabled |-> FALSE]]

AgentIds == {"X", "W", "Y", "Z"}

\* settings.get_agent_config: None for an unknown id.
get_agent_config(agent_id) ==
    IF agent_id \in DOMAIN ConfiguredAgents
    THEN ConfiguredAgents[agent_id] ELSE None

\* The AgentService object made by the n-th construction for an agent.
AgentServiceObject(agent_id, n) == [agent_id |-> agent_id, construction |-> n]

\* get_agent_service without the test of the enabled flag.
get_agent_service_ignoring_enabled(services, built, agent_id, init_ok) ==
    IF agent_id \in DOMAIN services
    THEN [err |-> "none", handle |-> services[agent_id],
          services |-> services, built |-> built]
    ELSE LET agent_config == get_agent_config(agent_id)
             handle == AgentServiceObject(agent_id, built[agent_id] + 1)
         IN  IF agent_config = None
             THEN [err |-> "AgentNotFoundError", handle |-> None,
                   services |-> services, built |-> built]
             ELSE IF ~init_ok
             THEN [err |-> "AgentEngineError", handle |-> None,
                   services |-> services,
                   built |-> [built EXCEPT ![agent_id] = @ + 1]]
             ELSE [err |-> "none", handle |-> handle,
                   services |-> (agent_id :> handle) @@ services,
                   built |-> [built EXCEPT ![agent_id] = @ + 1]]

\* get_agent_service that caches the object whose construction failed.
get_agent_service_caching_failures(services, built, agent_id, init_ok) ==
    IF agent_id \in DOMAIN services
    THEN [err |-> "none", handle |-> services[agent_id],
          services |-> services, built |-> built]
    ELSE IF get_agent_config(agent_id) = None
    THEN [err |-> "AgentNotFoundError", handle |-> None,
          services |-> services, built |-> built]
    ELSE [err |-> IF init_ok /\ get_agent_config(agent_id).enabled
                  THEN "none" ELSE "AgentEngineError",
          handle |-> IF init_ok /\ get_agent_config(agent_id).enabled
                     THEN AgentServiceObject(agent_id, built[agent_id] + 1)
                     ELSE None,
          services |-> (agent_id :> AgentServiceObject(agent_id, built[agent_id] + 1))
                       @@ services,
          built |-> [built EXCEPT ![agent_id] = @ + 1]]

\* get_agent_service that constructs anew whatever the cache holds.
get_agent_service_rebuilding(services, built, agent_id, init_ok) ==
    LET handle == AgentServiceObject(agent_id, built[agent_id] + 1)
    IN  IF get_agent_config(agent_id) = None \/ ~get_agent_config(agent_id).enabled
        THEN [err |-> "AgentNotFoundError", handle |-> None,
              services |-> services, built |-> built]
        ELSE [err |-> "none", handle |-> handle,
              services |-> (agent_id :> handle) @@ services,
              built |-> [built EXCEPT ![agent_id] = @ + 1]]

\* get_agent_service(agent_id) on the cache services; built counts the runs
\* of AgentService.__init__ (and with it _initialize_client) per agent, and
\* init_ok says whether that run succeeds.  Returns the handle or the error,
\* and the cache and the counts afterwards.
get_agent_service(services, built, agent_id, init_ok) ==
    IF agent_id \in DOMAIN services
    THEN [err |-> "none", handle |-> services[agent_id],
          services |-> services, built |-> built]
    ELSE LET agent_config == get_agent_config(agent_id)
             handle == AgentServiceObject(agent_id, built[agent_id] + 1)
         IN  IF agent_config = None
             THEN [err |-> "AgentNotFoundError", handle |-> None,
                   services |-> services, built |-> built]
             ELSE IF ~agent_config.enabled
             THEN [err |-> "AgentEngineError", handle |-> None,
                   services |-> services, built |-> built]
             ELSE IF ~init_ok
             THEN [err |-> "AgentEngineError", handle |-> None,
                   services |-> services,
                   built |-> [built EXCEPT ![agent_id] = @ + 1]]
             ELSE [err |-> "none", handle |-> handle,
                   services |-> (agent_id :> handle) @@ services,
                   built |-> [built EXCEPT ![agent_id] = @ + 1]]

\* factory holds the cache _services, the number of constructions begun per
\* agent (built) and, for the properties, the handles successful calls have
\* returned per agent (returned), the handles the cache has ever held per
\* agent (cached), whether a construction failed (failed) and the last
\* call: its arguments, its outcome with the status code of the error
\* raised, and the cache and the counts when it began.
InitFactory ==
    factory = [services |-> <<>>,
               built |-> [a \in AgentIds |-> 0],
               returned |-> [a \in AgentIds |-> {}],
               cached |-> [a \in AgentIds |-> {}],
               failed |-> [a \in AgentIds |-> FALSE],
               last |-> [op |-> "none", out |-> None,
                         agent_id |-> "", err |-> "none", handle |-> None,
                         status_code |-> 0, init_ok |-> TRUE,
                         services_before |-> <<>>,
                         built_before |-> [a \in AgentIds |-> 0]]]

GetAgentService(agent_id, init_ok) ==
    LET done == get_agent_service(factory.services, factory.built, agent_id,
                                  init_ok)
        constructing == done.built[agent_id] # factory.built[agent_id]
    IN  /\ agent_id \in DOMAIN factory.services \/ factory.built[agent_id] < MaxBuilds
        /\ factory' =
             [services |-> done.services,
              built |-> done.built,
              returned |-> IF done.err = "none"
                           THEN [factory.returned EXCEPT
                                   ![agent_id] = @ \cup {done.handle}]
                           ELSE factory.returned,
              cached |-> [a \in AgentIds |->
                            factory.cached[a]
                            \cup (IF a \in DOMAIN done.services
                                  THEN {done.services[a]} ELSE {})],
              failed |-> IF constructing /\ done.err # "none"
                         THEN [factory.failed EXCEPT ![agent_id] = TRUE]
                         ELSE factory.failed,
              last |-> [op |-> "get_agent_service", out |-> None,
                        agent_id |-> agent_id, err |-> done.err,
                        handle |-> done.handle,
                        status_code |-> IF done.err = "none" THEN 0
                                        ELSE error_status_code(done.err),
                        init_ok |-> init_ok,
                        services_before |-> factory.services,
                        built_before |-> factory.built]]
        /\ UNCHANGED exceptFactory

\* settings.agents: the configured agents in configuration order, the
\* entries of ConfiguredAgents with all their fields.
SettingsAgents ==
    <<[agent_id |-> "X", project_id |-> "p1", location |-> "us-central1",
       name |-> "x", display_name |-> "Agent X", description |-> "",
       enabled |-> ConfiguredAgents["X"].enabled],
      [agent_id |-> "Y", project_id |-> "", location |-> "",
       name |-> "y", display_name |-> "Agent Y", description |-> "off",
       enabled |-> ConfiguredAgents["Y"].enabled],
      [agent_id |-> "W", project_id |-> "", location |-> "",
       name |-> "w", display_name |-> "Agent W", description |-> "",
       enabled |-> ConfiguredAgents["W"].enabled]>>

\* list_agents: five fields of every entry of settings.agents, in order.
list_agents ==
    [i \in 1..Len(SettingsAgents) |->
        [agent_id |-> SettingsAgents[i].agent_id,
         name |-> SettingsAgents[i].name,
         display_name |-> SettingsAgents[i].display_name,
         description |-> SettingsAgents[i].description,
         enabled |-> SettingsAgents[i].enabled]]

\* A call of list_agents: the factory's cache and counts are not touched.
ListAgents ==
    /\ factory' = [factory EXCEPT
                     !.last = [op |-> "list_agents", out |-> list_agents,
                               agent_id |-> "", err |-> "none",
                               handle |-> None, status_code |-> 0,
                               init_ok |-> TRUE,
                               services_before |-> factory.services,
                               built_before |-> factory.built]]
    /\ UNCHANGED exceptFactory

\* The routes the routers declare, under the prefix main.py includes them
\* with, as (method, path template) pairs.  The agents router declares none.
AgentsRoutes == {}

HealthRoutes == {<<"GET", "/api/v1/health">>, <<"GET", "/api/v1/health/">>}

SessionsRoutes ==
    {<<"POST", "/api/v1/agents/{agent_id}/users/{user_id}/sessions">>,
     <<"POST", "/api/v1/agents/{agent_id}/users/{user_id}/sessions/{session_id}">>,
     <<"GET", "/api/v1/agents/{agent_id}/users/{user_id}/sessions/{session_id}">>,
     <<"GET", "/api/v1/agents/{agent_id}/users/{user_id}/sessions">>,
     <<"GET", "/api/v1/agents/{agent_id}/sessions">>,
     <<"PATCH", "/api/v1/agents/{agent_id}/users/{user_id}/sessions/{session_id}">>,
     <<"PATCH", "/api/v1/agents/{agent_id}/users/{user_id}/sessions/{session_id}/state">>,
     <<"DELETE", "/api/v1/agents/{agent_id}/users/{user_id}/sessions/{session_id}">>,
     <<"GET", "/api/v1/agents/{agent_id}/users">>,
     <<"GET", "/api/v1/agents/{agent_id}/users/{user_id}/sessions/{session_id}/stats">>}

EventsRoutes ==
    {<<"POST", "/api/v1/agents/{agent_id}/users/{user_id}/sessions/{session_id}/events">>,
     <<"GET", "/api/v1/agents/{agent_id}/users/{user_id}/sessions/{session_id}/events">>,
     <<"GET", "/api/v1/agents/{agent_id}/users/{user_id}/sessions/{session_id}/events/{event_id}">>,
     <<"DELETE", "/api/v1/agents/{agent_id}/users/{user_id}/sessions/{session_id}/events/{event_id}">>,
     <<"GET", "/api/v1/agents/{agent_id}/users/{user_id}/sessions/{session_id}/events/stream">>,
     <<"GET", "/api/v1/agents/{agent_id}/users/{user_id}/sessions/{session_id}/conversation">>}

RegisteredRoutes ==
    HealthRoutes \cup AgentsRoutes \cup SessionsRoutes \cup EventsRoutes
    \cup {<<"GET", "/">>}

\* The framework's answer to a request no route matches.
NotFoundResponse == [status_code |-> 404, body |-> [detail |-> "Not Found"]]

\* GET /api/v1/agents: answered by a route of the agents router that lists
\* the agents if there is one, by the framework's 404 otherwise.
HttpGetAgents ==
    LET response ==
            IF <<"GET", "/api/v1/agents">> \in RegisteredRoutes
            THEN [status_code |-> 200, body |-> list_agents]
            ELSE NotFoundResponse
    IN  /\ factory' = [factory EXCEPT
                         !.last = [op |-> "GET /api/v1/agents",
                                   out |-> response.body,
                                   agent_id |-> "", err |-> "none",
                                   handle |-> None,
                                   status_code |-> response.status_code,
                                   init_ok |-> TRUE,
                                   services_before |-> factory.services,
                                   built_before |-> factory.built]]
        /\ UNCHANGED exceptFactory

NextFactory ==
    \/ \E agent_id \in AgentIds, init_ok \in BOOLEAN :
            GetAgentService(agent_id, init_ok)
    \/ ListAgents
    \/ HttpGetAgents

(***************************************************************************)
(* Two get_agent_service calls interleaved statement by statement          *)
(***************************************************************************)

Requests == {"r1", "r2"}

\* self._services as the set of its (key, value) entries.
\* d[k] = v of a dict: the entry of k is replaced.
dict_set_keeping(entries, k, v) == entries \cup {<<k, v>>}

dict_set(entries, k, v) == {e \in entries : e[1] # k} \cup {<<k, v>>}

\* k in d
dict_has(entries, k) == \E e \in entries : e[1] = k

\* d[k]
dict_get(entries, k) == (CHOOSE e \in entries : e[1] = k)[2]

\* race holds the entries of _services, the number of constructions begun
\* per agent, and for each request its position (idle, missed, constructed,
\* returned, raised), its agent_id and the handle it holds or has returned.
InitRace ==
    race = [entries |-> {},
            built |-> [a \in AgentIds |-> 0],
            pc |-> [r \in Requests |-> "idle"],
            agent_id |-> [r \in Requests |-> ""],
            handle |-> [r \in Requests |-> None]]

\* "if agent_id in self._services: return ...", then the configuration
\* checks, which read nothing a request can change.
RaceCheck(r, agent_id) ==
    /\ race.pc[r] = "idle"
    /\ race' =
         IF dict_has(race.entries, agent_id)
         THEN [race EXCEPT !.pc[r] = "returned", !.agent_id[r] = agent_id,
                           !.handle[r] = dict_get(race.entries, agent_id)]
         ELSE IF get_agent_config(agent_id) = None
                 \/ ~get_agent_config(agent_id).enabled
         THEN [race EXCEPT !.pc[r] = "raised", !.agent_id[r] = agent_id]
         ELSE [race EXCEPT !.pc[r] = "missed", !.agent_id[r] = agent_id]
    /\ UNCHANGED exceptRace

\* "service = AgentService(agent_config)"
RaceConstruct(r, init_ok) ==
    /\ race.pc[r] = "missed"
    /\ LET a == race.agent_id[r]
       IN  race' =
             IF init_ok
             THEN [race EXCEPT !.pc[r] = "constructed",
                               !.built[a] = @ + 1,
                               !.handle[r] = AgentServiceObject(a, race.built[a] + 1)]
             ELSE [race EXCEPT !.pc[r] = "raised", !.built[a] = @ + 1]
    /\ UNCHANGED exceptRace

\* "self._services[agent_id] = service; return service"
RaceStore(r) ==
    /\ race.pc[r] = "constructed"
    /\ race' = [race EXCEPT
                  !.pc[r] = "returned",
                  !.entries = dict_set(@, race.agent_id[r], race.handle[r])]
    /\ UNCHANGED exceptRace

NextFactoryRace ==
    \/ \E r \in Requests, agent_id \in AgentIds : RaceCheck(r, agent_id)
    \/ \E r \in Requests, init_ok \in BOOLEAN : RaceConstruct(r, init_ok)
    \/ \E r \in Requests : RaceStore(r)

(***************************************************************************)
(* sse_keepalive_generator (app/core/streaming.py)                         *)
(*                                                                         *)
(* The wrapper is followed from one suspension point to the next: waiting  *)
(* for the next frame of the wrapped generator, suspended at a yield until *)
(* its consumer asks for the next item, or asleep inside ping_generator.   *)
(* Time is the event loop's clock in whole units; it does not advance      *)
(* while the wrapper has a step it can take at once.                       *)
(***************************************************************************)

KeepaliveIntervals == {1, 2}

\* create_sse_event for the three kinds of frame the wrapper yields.  `at`
\* is when the frame was yielded and, for a frame of the wrapped generator,
\* `asked_at` is when the wrapper began to wait for it.  In the state,
\* `asked` says that the wrapper is waiting on the wrapped generator's
\* __anext__ and `ready` that the wrapped generator has a frame to give.
RealFrame(n, asked_at, at) ==
    [event |-> "message", n |-> n, asked_at |-> asked_at, at |-> at]

PingFrame(now) == [event |-> "ping", timestamp |-> now, at |-> now]

ErrorFrame(now) == [event |-> "error", error |-> "source failed", at |-> now]

InitKeepalive ==
    keepalive = [pc |-> "unwrapped", interval |-> 0, now |-> 0,
                 last_event_time |-> 0, sleep_until |-> 0, asked_at |-> 0,
                 asked |-> FALSE, ready |-> FALSE, produced |-> 0, out |-> <<>>]

\* The first request for an item: last_event_time is read off the clock,
\* ping_generator is created (not started), and the async for asks the
\* wrapped generator for its first frame.
KeepaliveStart(keepalive_interval) ==
    /\ keepalive.pc = "unwrapped"
    /\ keepalive' = [keepalive EXCEPT !.pc = "await_event",
                                      !.interval = keepalive_interval,
                                      !.last_event_time = keepalive.now,
                                      !.asked = TRUE,
                                      !.asked_at = keepalive.now]
    /\ UNCHANGED exceptKeepalive

\* The wrapped generator has its next frame to give.
SourceProduce ==
    /\ keepalive.pc \notin {"unwrapped", "done"}
    /\ ~keepalive.ready
    /\ keepalive.produced < MaxFrames
    /\ keepalive' = [keepalive EXCEPT !.ready = TRUE,
                                      !.produced = keepalive.produced + 1]
    /\ UNCHANGED exceptKeepalive

\* The async for receives a frame: last_event_time = now; yield event.
TakeEvent ==
    /\ keepalive.pc = "await_event"
    /\ keepalive.ready
    /\ keepalive' = [keepalive EXCEPT
                       !.pc = "yielded_event",
                       !.ready = FALSE,
                       !.asked = FALSE,
                       !.last_event_time = keepalive.now,
                       !.out = Append(keepalive.out,
                                      RealFrame(keepalive.produced,
                                                keepalive.asked_at,
                                                keepalive.now))]
    /\ UNCHANGED exceptKeepalive

\* The consumer asks for the next item after a frame of the wrapped
\* generator: the wrapper compares the clock with last_event_time and either
\* enters ping_generator, which sleeps keepalive_interval before it makes
\* its ping, or goes round the async for and asks for the next frame.
ResumeAfterEvent ==
    /\ keepalive.pc = "yielded_event"
    /\ LET current_time == keepalive.now
       IN  IF current_time - keepalive.last_event_time >= keepalive.interval
           THEN keepalive' = [keepalive EXCEPT
                                !.pc = "sleeping",
                                !.sleep_until = keepalive.now
                                                + keepalive.interval]
           ELSE keepalive' = [keepalive EXCEPT !.pc = "await_event",
                                               !.asked = TRUE,
                                               !.asked_at = keepalive.now]
    /\ UNCHANGED exceptKeepalive

\* asyncio.sleep returns in ping_generator: the ping is made and yielded.
WakePing ==
    /\ keepalive.pc = "sleeping"
    /\ keepalive.now >= keepalive.sleep_until
    /\ keepalive' = [keepalive EXCEPT
                       !.pc = "yielded_ping",
                       !.out = Append(keepalive.out,
                                      PingFrame(keepalive.now))]
    /\ UNCHANGED exceptKeepalive

\* The consumer asks for the next item after a ping: the async for asks the
\* wrapped generator for its next frame.
ResumeAfterPing ==
    /\ keepalive.pc = "yielded_ping"
    /\ keepalive' = [keepalive EXCEPT !.pc = "await_event",
                                      !.asked = TRUE,
                                      !.asked_at = keepalive.now]
    /\ UNCHANGED exceptKeepalive

\* The wrapped generator is exhausted: the wrapper ends.
SourceEnd ==
    /\ keepalive.pc = "await_event"
    /\ ~keepalive.ready
    /\ keepalive' = [keepalive EXCEPT !.pc = "done", !.asked = FALSE]
    /\ UNCHANGED exceptKeepalive

\* The wrapped generator raises: the wrapper yields one error frame and ends.
SourceFail ==
    /\ keepalive.pc = "await_event"
    /\ ~keepalive.ready
    /\ keepalive' = [keepalive EXCEPT
                       !.pc = "done",
                       !.asked = FALSE,
                       !.out = Append(keepalive.out,
                                      ErrorFrame(keepalive.now))]
    /\ UNCHANGED exceptKeepalive

\* The consumer closes the wrapper: GeneratorExit at a yield, CancelledError
\* in the await on the wrapped generator or in the sleep.  Neither is caught
\* by the wrapper's "except Exception", so no error frame is yielded and the
\* wrapper ends without asking the wrapped generator again.
KeepaliveClose(exc) ==
    /\ keepalive.pc \in {"await_event", "yielded_event", "sleeping",
                          "yielded_ping"}
    /\ keepalive' = [keepalive EXCEPT
                       !.pc = "done",
                       !.asked = FALSE,
                       !.out = IF caught_by_except_exception(exc)
                               THEN Append(keepalive.out,
                                           ErrorFrame(keepalive.now))
                               ELSE keepalive.out]
    /\ UNCHANGED exceptKeepalive

\* The clock advances while the wrapper is suspended: waiting for a frame
\* that has not come, waiting for its consumer, or asleep.
KeepaliveTick ==
    /\ keepalive.pc \notin {"unwrapped", "done"}
    /\ keepalive.now < MaxTime
    /\ ~(keepalive.pc = "await_event" /\ keepalive.ready)
    /\ ~(keepalive.pc = "sleeping" /\ keepalive.now >= keepalive.sleep_until)
    /\ keepalive' = [keepalive EXCEPT !.now = keepalive.now + 1]
    /\ UNCHANGED exceptKeepalive

NextKeepalive ==
    \/ \E keepalive_interval \in KeepaliveIntervals :
            KeepaliveStart(keepalive_interval)
    \/ SourceProduce
    \/ TakeEvent
    \/ ResumeAfterEvent
    \/ WakePing
    \/ ResumeAfterPing
    \/ SourceEnd
    \/ SourceFail
    \/ \E exc \in Cancellations : KeepaliveClose(exc)
    \/ KeepaliveTick

(***************************************************************************)
(* The session operations as steps of the system                           *)
(***************************************************************************)

\* result records the last call: what it returned (err, http, session,
\* session_state) and, for the properties, what it was given: the session's
\* state and log length when the call began and, for an update_state that
\* returned a Session, the caller's state_delta.
NoResult ==
    [op |-> "none", sid |-> "", requested |-> "", user_id |-> "",
     replace |-> FALSE, err |-> "none", http |-> 0, response |-> None,
     session |-> None, session_state |-> None,
     state_delta |-> None, before_state |-> None, before_count |-> 0,
     before_status |-> "none", before_owner |-> "", before_events |-> <<>>,
     events |-> <<>>, listed |-> None,
     page_size |-> 0, page_token |-> "", next_page_token |-> ""]

Called(op, sid) ==
    [NoResult EXCEPT !.op = op, !.sid = sid,
                     !.before_status = sessions[sid].status,
                     !.before_owner = sessions[sid].user_id,
                     !.before_events = sessions[sid].events,
                     !.before_state = sessions[sid].state,
                     !.before_count = Len(sessions[sid].events)]

HasRoom(sid) ==
    BackendHas(sessions, sid) => Len(sessions[sid].events) < MaxEvents

CreateSession(sid, user_id, initial_state) ==
    /\ sessions[sid].status = "none"
    /\ sessions' = BackendCreate(sessions, sid, user_id, create_config(initial_state))
    /\ result' = [Called("create_session", sid) EXCEPT
                    !.response = route_response("create_session", "none", sid),
                    !.session = session_to_response(sessions'[sid], sid)]
    /\ UNCHANGED exceptSessions

\* The ids a caller asks for in POST .../sessions/{session_id}.
RequestedIds == {"s1", "my-session"}

\* SessionService.create_session_with_id given the id the caller asked for,
\* with the body the route builds (request.session_id = session_id): it
\* calls create_session, and the backend assigns the id, sid.
CreateSessionWithId(session_id, sid, user_id, initial_state) ==
    /\ sessions[sid].status = "none"
    /\ sessions' = BackendCreate(sessions, sid, user_id, create_config(initial_state))
    /\ result' = [Called("create_session_with_id", sid) EXCEPT
                    !.requested = session_id,
                    !.user_id = user_id,
                    !.response = route_response("create_session_with_id",
                                                "none", sid),
                    !.session = session_to_response(sessions'[sid], sid)]
    /\ UNCHANGED exceptSessions

GetSession(sid, user_id) ==
    LET got == get_session(sessions, sid, user_id)
    IN  /\ result' = [Called("get_session", sid) EXCEPT
                        !.err = got.err, !.session = got.session,
                        !.response = route_response("get_session", got.err,
                                                    sid)]
        /\ UNCHANGED <<sessions, exceptSessions>>

AppendEvent(sid, request, rejects) ==
    LET done == append_event(sessions, sid, request, rejects)
    IN  /\ HasRoom(sid)
        /\ sessions' = done.store
        /\ result' = [Called("append_event", sid) EXCEPT
                        !.err = done.err, !.session_state = done.session_state,
                        !.response = route_response("append_event", done.err,
                                                    sid)]
        /\ UNCHANGED exceptSessions

UpdateState(sid, request, rejects) ==
    LET done == update_state(sessions, sid, request, rejects)
    IN  /\ HasRoom(sid)
        /\ sessions' = done.store
        /\ result' = [Called("update_state", sid) EXCEPT
                        !.user_id = request.user_id,
                        !.replace = request.replace,
                        !.err = done.err,
                        !.http = update_session_state_status(done.err),
                        !.response = route_response("update_state", done.err,
                                                    sid),
                        !.session = done.session,
                        !.state_delta = IF done.err = "none"
                                        THEN request.state_delta ELSE None]
        /\ UNCHANGED exceptSessions

DeleteSession(sid, user_id) ==
    LET done == delete_session(sessions, sid, user_id)
    IN  /\ sessions' = done.store
        /\ result' = [Called("delete_session", sid) EXCEPT
                        !.user_id = user_id,
                        !.err = done.err,
                        !.response = route_response("delete_session",
                                                    done.err, sid)]
        /\ UNCHANGED exceptSessions

\* GET .../sessions/{sid}/events: list_events_async on the session.
ListEventsOfSession(sid, page_size, page_token) ==
    LET done == list_events_async(sessions, sid, page_size, page_token)
    IN  /\ result' = [Called("list_events", sid) EXCEPT
                        !.err = done.err,
                        !.events = done.events,
                        !.page_size = page_size,
                        !.page_token = page_token,
                        !.next_page_token = done.next_page_token,
                        !.response = route_response("list_events", done.err,
                                                    sid)]
        /\ UNCHANGED <<sessions, exceptSessions>>

\* GET .../users/{user_id}/sessions and GET .../sessions (user_id = ""):
\* list_sessions on what the backend lists.
ListSessionsOfUser(user_id) ==
    /\ result' = [NoResult EXCEPT
                    !.op = "list_sessions",
                    !.user_id = user_id,
                    !.listed = list_sessions_response(
                                   BackendList(sessions, user_id)),
                    !.response = route_response("list_sessions", "none", "")]
    /\ UNCHANGED <<sessions, exceptSessions>>

StateUpdateRequests ==
    [user_id : Users, state_delta : Deltas, replace : BOOLEAN]

(***************************************************************************)
(* update_state(replace=True) one backend call at a time                   *)
(*                                                                         *)
(* The call reads the session (sessions.get), appends its event            *)
(* (sessions.events.append) and reads the session again.  The backend is   *)
(* remote and has other writers: between two of these calls it serves      *)
(* whatever else reaches it for the same session.                          *)
(***************************************************************************)

NoUpdate ==
    [pc |-> "idle", sid |-> "", request |-> None, state_delta |-> None,
     fetched_count |-> 0, appended_count |-> 0]

InitUpdate == update = NoUpdate

\* The first backend call: get_session, then the clear delta of the state
\* it returned with the caller's delta on top.  A failure leaves as
\* InvalidStateUpdateError.
ReplaceFetch(sid, request) ==
    LET current == get_session(sessions, sid, request.user_id)
    IN  /\ update.pc = "idle"
        /\ request.replace
        /\ IF current.err # "none"
           THEN /\ update' = NoUpdate
                /\ result' = [Called("update_state", sid) EXCEPT
                                !.replace = TRUE,
                                !.err = "InvalidStateUpdateError",
                                !.http = update_session_state_status(
                                             "InvalidStateUpdateError"),
                                !.response = route_response(
                                    "update_state", "InvalidStateUpdateError",
                                    sid)]
           ELSE /\ update' = [pc |-> "fetched", sid |-> sid,
                              request |-> request,
                              state_delta |->
                                  replace_delta(current.session.state,
                                                request.state_delta),
                              fetched_count |-> Len(sessions[sid].events),
                              appended_count |-> 0]
                /\ UNCHANGED result
        /\ UNCHANGED <<sessions, exceptUpdate>>

\* The second backend call: append_event with the delta built from what
\* the first call read.
ReplaceAppend(rejects) ==
    LET sid == update.sid
        done == append_event(sessions, sid,
                             state_event_request(update.request.user_id,
                                                 update.state_delta),
                             rejects)
    IN  /\ update.pc = "fetched"
        /\ HasRoom(sid)
        /\ sessions' = done.store
        /\ IF done.err # "none"
           THEN /\ update' = NoUpdate
                /\ result' = [Called("update_state", sid) EXCEPT
                                !.replace = TRUE,
                                !.err = "InvalidStateUpdateError",
                                !.http = update_session_state_status(
                                             "InvalidStateUpdateError"),
                                !.response = route_response(
                                    "update_state", "InvalidStateUpdateError",
                                    sid)]
           ELSE /\ update' = [update EXCEPT
                                !.pc = "appended",
                                !.appended_count =
                                    Len(done.store[sid].events)]
                /\ UNCHANGED result
        /\ UNCHANGED exceptUpdate

\* The third backend call: get_session for the Session to return.
ReplaceReturn ==
    LET sid == update.sid
        updated == get_session(sessions, sid, update.request.user_id)
        err == IF updated.err # "none"
               THEN "InvalidStateUpdateError" ELSE "none"
    IN  /\ update.pc = "appended"
        /\ update' = NoUpdate
        /\ result' = [Called("update_state", sid) EXCEPT
                        !.replace = TRUE,
                        !.err = err,
                        !.http = update_session_state_status(err),
                        !.response = route_response("update_state", err, sid),
                        !.session = updated.session,
                        !.state_delta = IF err = "none"
                                        THEN update.request.state_delta
                                        ELSE None]
        /\ UNCHANGED <<sessions, exceptUpdate>>

InitSessions ==
    /\ sessions = [sid \in SessionIds |-> NoSession]
    /\ result = NoResult

InitStream ==
    /\ received = <<>>
    /\ frames = <<>>
    /\ backend = "unopened"
    /\ pc = "idle"

Init == InitSessions /\ InitStream /\ InitQuery /\ InitCall /\ InitFactory
        /\ InitRace /\ InitKeepalive /\ InitUpdate

NextSessions ==
    \/ \E sid \in SessionIds, u \in Owners, st \in InitialStates :
            CreateSession(sid, u, st)
    \/ \E session_id \in RequestedIds, sid \in SessionIds, u \in Owners,
          st \in InitialStates :
            CreateSessionWithId(session_id, sid, u, st)
    \/ \E sid \in SessionIds, u \in Users : GetSession(sid, u)
    \/ \E sid \in SessionIds, rq \in AppendRequests, rj \in BOOLEAN :
            AppendEvent(sid, rq, rj)
    \/ \E sid \in SessionIds, rq \in StateUpdateRequests, rj \in BOOLEAN :
            UpdateState(sid, rq, rj)
    \/ \E sid \in SessionIds, u \in Users : DeleteSession(sid, u)
    \/ \E sid \in SessionIds, page_size \in {1, 50},
          page_token \in EventPageTokens :
            ListEventsOfSession(sid, page_size, page_token)
    \/ \E u \in UserFilters : ListSessionsOfUser(u)

SpecSessions == Init /\ [][NextSessions]_vars

NextStream ==
    \/ StreamStart
    \/ \E event \in BackendEvents : StreamEvent(event)
    \/ StreamEnd
    \/ StreamFail
    \/ \E exc \in Cancellations : StreamClose(exc)

SpecStream == Init /\ [][NextStream]_vars

SpecQuery == Init /\ [][NextQuery]_vars

SpecListEvents == Init /\ [][NextListEvents]_vars

SpecListSessions == Init /\ [][NextListSessions]_vars

SpecHistory == Init /\ [][NextHistory]_vars

SpecFactory == Init /\ [][NextFactory]_vars

SpecFactoryRace == Init /\ [][NextFactoryRace]_vars

SpecKeepalive == Init /\ [][NextKeepalive]_vars

\* One update_state(replace=True) call and the other writers of its session.
NextReplaceRace ==
    \/ \E sid \in SessionIds, u \in Owners, st \in InitialStates :
            CreateSession(sid, u, st)
    \/ \E sid \in SessionIds, rq \in AppendRequests, rj \in BOOLEAN :
            AppendEvent(sid, rq, rj)
    \/ \E sid \in SessionIds, rq \in StateUpdateRequests :
            ReplaceFetch(sid, rq)
    \/ \E rj \in BOOLEAN : ReplaceAppend(rj)
    \/ ReplaceReturn

SpecReplaceRace == Init /\ [][NextReplaceRace]_vars

(***************************************************************************)
(* Properties of the session state-update protocol                         *)
(***************************************************************************)

\* The last call was an update_state that returned a Session.
Updated(sid, replace) ==
    /\ result.op = "update_state" /\ result.sid = sid
    /\ result.err = "none" /\ result.replace = replace

LastEvent(sid) == sessions[sid].events[Len(sessions[sid].events)]

\* C1 as stated: update_state with replace=false and delta D on a session
\* with state S leaves every key of D with D's value, every key of S not in
\* D with its old value, no other key, and returns a Session with that state.
C1_MergeTakesEveryDeltaValue ==
    \A sid \in SessionIds :
        Updated(sid, FALSE)
        => LET S == result.before_state
               D == result.state_delta
               T == sessions[sid].state
           IN  /\ \A k \in DOMAIN D : k \in DOMAIN T /\ T[k] = D[k]
               /\ \A k \in DOMAIN S \ DOMAIN D : k \in DOMAIN T /\ T[k] = S[k]
               /\ DOMAIN T \subseteq DOMAIN S \cup DOMAIN D
               /\ result.session.state = T

\* C1 amended: update_state with replace=false and delta D on a session
\* with state S leaves every key of D whose value is not null with D's
\* value, removes every key of D whose value is null, leaves every key of S
\* not in D with its old value, adds no other key, and returns a Session
\* with that state.
C1_MergeLaw ==
    \A sid \in SessionIds :
        Updated(sid, FALSE)
        => LET S == result.before_state
               D == result.state_delta
               T == sessions[sid].state
           IN  /\ \A k \in DOMAIN D :
                    IF D[k] = Null THEN k \notin DOMAIN T
                    ELSE k \in DOMAIN T /\ T[k] = D[k]
               /\ \A k \in DOMAIN S \ DOMAIN D : k \in DOMAIN T /\ T[k] = S[k]
               /\ DOMAIN T \subseteq DOMAIN S \cup DOMAIN D
               /\ result.session.state = T

\* The spec's example: {a:0, b:2} merged with {a:1} has given {a:1, b:2}.
C1_Witness ==
    \E sid \in SessionIds :
        /\ Updated(sid, FALSE)
        /\ result.before_state = [a |-> "v0", b |-> "v1"]
        /\ result.state_delta = [a |-> "v1"]
        /\ sessions[sid].state = [a |-> "v1", b |-> "v1"]
        /\ result.session.state = [a |-> "v1", b |-> "v1"]

\* C2 as stated: update_state with replace=true and delta D on a session
\* with state S leaves the session with exactly the entries of D; every key
\* of S that D does not mention is sent as null in the appended delta and
\* removed; every key D mentions carries the caller's value in the appended
\* delta and in the state.
C2_ReplaceLeavesExactlyTheDelta ==
    \A sid \in SessionIds :
        Updated(sid, TRUE)
        => LET S == result.before_state
               D == result.state_delta
               T == sessions[sid].state
               sent == ConfigStateDelta(LastEvent(sid).config)
           IN  /\ T = D
               /\ \A k \in DOMAIN S \ DOMAIN D :
                    k \in DOMAIN sent /\ sent[k] = Null /\ k \notin DOMAIN T
               /\ \A k \in DOMAIN D : k \in DOMAIN sent /\ sent[k] = D[k]

\* C2 amended: update_state with replace=true and delta D on a session with
\* state S leaves the session with exactly the entries of D whose value is
\* not null; every key of S that D does not mention is sent as null in the
\* appended delta and removed; every key D mentions carries the caller's
\* value in the appended delta, so that the clear never nulls it.
C2_ReplaceLaw ==
    \A sid \in SessionIds :
        Updated(sid, TRUE)
        => LET S == result.before_state
               D == result.state_delta
               T == sessions[sid].state
               sent == ConfigStateDelta(LastEvent(sid).config)
           IN  /\ DOMAIN T = {k \in DOMAIN D : D[k] # Null}
               /\ \A k \in DOMAIN T : T[k] = D[k]
               /\ \A k \in DOMAIN S \ DOMAIN D :
                    k \in DOMAIN sent /\ sent[k] = Null /\ k \notin DOMAIN T
               /\ \A k \in DOMAIN D : k \in DOMAIN sent /\ sent[k] = D[k]

\* The spec's example: {a:0, b:2} replaced by {a:1} has given {a:1}.
C2_Witness ==
    \E sid \in SessionIds :
        /\ Updated(sid, TRUE)
        /\ result.before_state = [a |-> "v0", b |-> "v1"]
        /\ result.state_delta = [a |-> "v1"]
        /\ sessions[sid].state = [a |-> "v1"]

\* The left fold of the state deltas of a log, a null deleting its key.
RECURSIVE FoldDeltas(_, _)
FoldDeltas(state, events) ==
    IF events = <<>>
    THEN state
    ELSE FoldDeltas(ApplyDelta(state, ConfigStateDelta(Head(events).config)),
                    Tail(events))

\* C3: the state of every session is the left fold, from the empty state, of
\* the state deltas of the events in its log.
C3_StateIsFoldOfLog ==
    \A sid \in SessionIds :
        BackendHas(sessions, sid)
        => sessions[sid].state = FoldDeltas(None, sessions[sid].events)

\* The delta the claim expects in the event of an update_state call.
EffectiveDelta(S, D, replace) ==
    IF replace
    THEN [k \in DOMAIN S \cup DOMAIN D |-> IF k \in DOMAIN D THEN D[k] ELSE Null]
    ELSE D

\* C4: an update_state call appends at most one event; one that returns a
\* Session has appended exactly one, after the events that were there, with
\* author "system" and the whole effective delta as its state_delta.
C4_OneSystemEventPerUpdate ==
    \A sid \in SessionIds :
        (result.op = "update_state" /\ result.sid = sid)
        => /\ Len(sessions[sid].events) <= result.before_count + 1
           /\ result.err = "none"
              => /\ Len(sessions[sid].events) = result.before_count + 1
                 /\ LastEvent(sid).author = "system"
                 /\ ConfigStateDelta(LastEvent(sid).config)
                      = EffectiveDelta(result.before_state, result.state_delta,
                                       result.replace)

\* A replace with {a:1} on a session that holds key b and one event has
\* appended a second event, carrying {a:1, b:null}.
C4_Witness ==
    \E sid \in SessionIds :
        /\ Updated(sid, TRUE)
        /\ result.before_count = 1
        /\ Len(sessions[sid].events) = 2
        /\ result.state_delta = [a |-> "v1"]
        /\ ConfigStateDelta(LastEvent(sid).config) = [a |-> "v1", b |-> Null]

\* C5: update_state on a session that does not exist ends with
\* SessionNotFoundError and HTTP 404; InvalidStateUpdateError (HTTP 400) is
\* the outcome only for a session that exists.
C5_MissingSessionIsNotFound ==
    \A sid \in SessionIds :
        (result.op = "update_state" /\ result.sid = sid)
        => /\ ~BackendHas(sessions, sid)
              => result.err = "SessionNotFoundError" /\ result.http = 404
           /\ result.err = "InvalidStateUpdateError" => BackendHas(sessions, sid)

(***************************************************************************)
(* Properties of stream_query and of the event conversion                  *)
(***************************************************************************)

\* A synthetic frame of the given kind, {event: <tag>, data: ...}.
IsSynthetic(frame, tag) == "event" \in DOMAIN frame /\ frame.event = tag

Last(seq) == seq[Len(seq)]

\* C6: stream_query yields a synthetic message_start frame before it
\* consumes any backend event; once a backend stream of n events has ended
\* normally it has yielded n+2 frames, message_start first and
\* message_complete last.
C6_StartThenEventsThenComplete ==
    /\ pc = "streaming"
       => /\ Len(frames) = Len(received) + 1
          /\ IsSynthetic(frames[1], "message_start")
    /\ pc = "done"
       => /\ Len(frames) = Len(received) + 2
          /\ IsSynthetic(frames[1], "message_start")
          /\ IsSynthetic(Last(frames), "message_complete")

\* C7: when the backend stream fails, no exception reaches the consumer and
\* the stream has ended with one synthetic error frame, which is the last.
C7_FailureEndsWithErrorFrame ==
    backend = "failed"
    => /\ pc = "done"
       /\ frames # <<>>
       /\ IsSynthetic(Last(frames), "error")
       /\ Cardinality({i \in 1..Len(frames) : IsSynthetic(frames[i], "error")}) = 1

\* The frames that stand for backend events.
DataFrames ==
    SelectSeq(frames, LAMBDA frame : "event" \notin DOMAIN frame)

HasStateDelta(event) ==
    IF IsDict(event)
    THEN /\ "actions" \in DOMAIN event
         /\ "state_delta" \in DOMAIN event.actions
         /\ IsTruthy(event.actions.state_delta)
    ELSE event.actions # None /\ IsTruthy(event.actions.state_delta)

PartsOf(event) ==
    IF IsDict(event)
    THEN IF "content" \in DOMAIN event THEN event.content.parts ELSE <<>>
    ELSE IF event.content # None THEN event.content.parts ELSE <<>>

HasPartWith(event, field) ==
    \E i \in 1..Len(PartsOf(event)) :
        /\ field \in DOMAIN PartsOf(event)[i]
        /\ PartsOf(event)[i][field] # None

\* The tag the claim gives a backend event: first match of state_update,
\* function_call, function_response, content_delta.
ClaimedTag(event) ==
    IF HasStateDelta(event) THEN "state_update"
    ELSE IF HasPartWith(event, "function_call") THEN "function_call"
    ELSE IF HasPartWith(event, "function_response") THEN "function_response"
    ELSE "content_delta"

\* C9: every frame stream_query emits for a backend event carries exactly
\* one tag, the first match of the classifier's order; an event with both a
\* non-empty state_delta and a function_call part is tagged state_update.
C9_FramesCarryTheClassifiedTag ==
    \A i \in 1..Len(frames) :
        i <= Len(received)
        => /\ "event" \in DOMAIN frames[i]
           /\ frames[i].event = ClaimedTag(received[i])

HasContent(event) ==
    IF IsDict(event)
    THEN "content" \in DOMAIN event /\ event.content # None
    ELSE event.content # None /\ event.content.parts # <<>>

\* An event has an actions bundle with one of its four fields set.
HasActions(event) ==
    IF IsDict(event)
    THEN "actions" \in DOMAIN event /\ event.actions # None
    ELSE /\ event.actions # None
         /\ \/ IsTruthy(event.actions.state_delta)
            \/ IsTruthy(event.actions.artifact_delta)
            \/ event.actions.transfer_to_agent # ""
            \/ event.actions.escalate # "None"

\* C11: the mapping yielded for a backend event of either shape holds the
\* keys id, author, invocation_id and timestamp; it holds content only when
\* the event has a non-empty content and actions only when the event's
\* actions bundle has state_delta, artifact_delta, transfer_to_agent or
\* escalate set.
C11_KeysOfNormalizedEvent ==
    \A i \in 1..Len(received) :
        LET out == adk_event_to_dict(received[i])
        IN  /\ {"id", "author", "invocation_id", "timestamp"} \subseteq DOMAIN out
            /\ "content" \in DOMAIN out => HasContent(received[i])
            /\ "actions" \in DOMAIN out => HasActions(received[i])

(***************************************************************************)
(* Properties of query                                                     *)
(***************************************************************************)

\* The texts of the parts of a backend event as the backend gave it.
RECURSIVE TextsOfParts(_)
TextsOfParts(parts) ==
    IF parts = <<>>
    THEN <<>>
    ELSE (IF "text" \in DOMAIN Head(parts) /\ Head(parts).text # ""
          THEN <<Head(parts).text>> ELSE <<>>)
         \o TextsOfParts(Tail(parts))

RECURSIVE TextsOfStream(_)
TextsOfStream(events) ==
    IF events = <<>>
    THEN <<>>
    ELSE TextsOfParts(PartsOf(Head(events))) \o TextsOfStream(Tail(events))

RECURSIVE Concat(_)
Concat(texts) ==
    IF texts = <<>> THEN "" ELSE Head(texts) \o Concat(Tail(texts))

RECURSIVE ObservedSessionIds(_)
ObservedSessionIds(events) ==
    IF events = <<>>
    THEN <<>>
    ELSE (IF IsDict(Head(events)) /\ "session_id" \in DOMAIN Head(events)
          THEN <<Head(events).session_id>> ELSE <<>>)
         \o ObservedSessionIds(Tail(events))

\* C13: the session_id query returns is the caller's when given, otherwise
\* the first session id the backend supplied on the stream; the placeholder
\* "new-session-<user_id>" is returned only when the backend supplied none.
C13_SessionIdFromStream ==
    query.pc = "returned"
    => LET seen == ObservedSessionIds(query.stream)
       IN  query.response.session_id
             = IF query.request.session_id # "" THEN query.request.session_id
               ELSE IF seen # <<>> THEN Head(seen)
               ELSE placeholder_session_id(query.request.user_id)

\* C14: a query whose backend stream raised, at whatever point, has failed
\* with AgentEngineError, status 502, carrying the cause, and has returned
\* nothing; a query without an agent handle has failed with
\* AgentNotFoundError and the backend stream was never opened.
C14_QueryFailures ==
    /\ query.backend = "failed"
       => /\ query.pc = "raised"
          /\ query.err = "AgentEngineError"
          /\ query.status_code = 502
          /\ query.original_error \in BackendFailures
          /\ query.response = None
    /\ query.err = "AgentNotFoundError"
       => /\ query.pc = "raised"
          /\ query.backend = "unopened"
          /\ query.stream = <<>>
          /\ query.response = None
    /\ query.pc = "raised" => query.err \in {"AgentEngineError", "AgentNotFoundError"}

\* The backend stream raised after an event with text had been consumed.
C14_Witness ==
    /\ query.pc = "raised"
    /\ query.err = "AgentEngineError"
    /\ Len(query.stream) = 1
    /\ query.final_response # ""
    /\ query.response = None

\* A query without an agent handle has failed.
C14_WitnessNoAgent ==
    query.pc = "raised" /\ query.err = "AgentNotFoundError"

(***************************************************************************)
(* Properties of list_events                                               *)
(***************************************************************************)

Min(a, b) == IF a <= b THEN a ELSE b

\* The 0-indexed log positions of the events a call returned, read from
\* their ids.
ReturnedPositions ==
    [i \in 1..Len(call.out) |->
        CHOOSE p \in 0..(Len(call.log) - 1) : call.out[i].id = ToString(p)]

\* C15: on a log of n events, list_events with offset o >= 0 and limit
\* l >= 1 returns the converted events at the 0-indexed positions o up to
\* min(o+l, n)-1, in log order; without a limit it returns those from
\* position o to the end.
C15_ListEventsWindow ==
    call.op = "list_events"
    => LET n == Len(call.log)
           o == call.offset
           stop == IF call.limit = 0 THEN n ELSE Min(o + call.limit, n)
           count == IF stop > o THEN stop - o ELSE 0
       IN  /\ Len(call.out) = count
           /\ \A i \in 1..count :
                call.out[i] = adk_event_to_dict(call.log[o + i])

\* A window in the middle of the log, and one cut by the end of the log.
C15_Witness ==
    /\ call.op = "list_events"
    /\ Len(call.log) = 5 /\ call.offset = 3 /\ call.limit = 4
    /\ ReturnedPositions = <<3, 4>>

\* C16 as stated: list_events(limit=3, offset=2) on a log of 10 events
\* returns the events at positions 3, 4, 5.
C16_ThreeFromOffsetTwoAsStated ==
    (call.op = "list_events" /\ Len(call.log) = 10
       /\ call.limit = 3 /\ call.offset = 2)
    => ReturnedPositions = <<3, 4, 5>>

\* C16 amended: list_events(limit=3, offset=2) on a log of 10 events returns
\* the events at positions 2, 3, 4, in log order.
C16_ThreeFromOffsetTwo ==
    (call.op = "list_events" /\ Len(call.log) = 10
       /\ call.limit = 3 /\ call.offset = 2)
    => ReturnedPositions = <<2, 3, 4>>

\* list_events(limit=3, offset=2) has run on a log of 10 events.
C16_Witness ==
    /\ call.op = "list_events" /\ Len(call.log) = 10
    /\ call.limit = 3 /\ call.offset = 2
    /\ Len(call.out) = 3

(***************************************************************************)
(* Properties of list_sessions                                             *)
(***************************************************************************)

\* C17: the filter list_sessions sends to the backend is "user_id=<id>" AND
\* the caller's expression when both are given, "user_id=<id>" alone for a
\* user filter alone, the caller's expression alone when only it is given,
\* and absent when neither is given; no user clause is sent without a user.
C17_ListSessionsFilter ==
    call.op = "list_sessions"
    => LET u == call.user_id
           f == call.filter_expr
       IN  IF u # "" /\ f # ""
           THEN /\ "filter" \in DOMAIN call.config
                /\ call.config.filter = "user_id=" \o u \o " AND " \o f
           ELSE IF u # ""
           THEN /\ "filter" \in DOMAIN call.config
                /\ call.config.filter = "user_id=" \o u
           ELSE IF f # ""
           THEN /\ "filter" \in DOMAIN call.config
                /\ call.config.filter = f
           ELSE "filter" \notin DOMAIN call.config

\* A user filter and a raw expression were conjoined.
C17_Witness ==
    /\ call.op = "list_sessions"
    /\ call.user_id = "u1" /\ call.filter_expr = "state.a=v0"
    /\ call.config.filter = "user_id=u1 AND state.a=v0"

\* The raw expression alone was sent for a call without a user filter.
C17_WitnessNoUser ==
    /\ call.op = "list_sessions"
    /\ call.user_id = "" /\ call.filter_expr = "state.a=v0"
    /\ call.config.filter = "state.a=v0"

(***************************************************************************)
(* Properties of get_conversation_history                                  *)
(***************************************************************************)

\* The positions of the user-authored events of the log of the call, in
\* log order.
UserPositions ==
    SelectSeq([i \in 1..Len(call.log) |-> i],
              LAMBDA i : call.log[i].author = "user")

\* The positions of the agent or model events that follow the k-th user
\* event and precede the next user event.
AgentPositionsAfter(k) ==
    LET from == UserPositions[k]
        to == IF k < Len(UserPositions)
              THEN UserPositions[k + 1] ELSE Len(call.log) + 1
    IN  {i \in (from + 1)..(to - 1) : call.log[i].author \in {"agent", "model"}}

\* C18: without max_turns, get_conversation_history returns one turn per
\* user event, in log order, the k-th turn holding the k-th user event; the
\* agent slot of a turn is empty when no agent message came between its
\* user event and the next user event (or the end of the log), and holds
\* such an agent message otherwise; a last turn without agent message is
\* returned too.
C18_OneTurnPerUserEvent ==
    (call.op = "get_conversation_history" /\ call.max_turns = <<>>)
    => /\ Len(call.out) = Len(UserPositions)
       /\ \A k \in 1..Len(UserPositions) :
            /\ k <= Len(call.out)
            /\ call.out[k].user = adk_event_to_dict(call.log[UserPositions[k]])
            /\ IF AgentPositionsAfter(k) = {}
               THEN call.out[k].agent = None
               ELSE \E i \in AgentPositionsAfter(k) :
                        call.out[k].agent = adk_event_to_dict(call.log[i])

\* The claim's example: authors user, agent, user, user, agent have given
\* the turns (1st, 2nd), (3rd, none), (4th, 5th).
C18_Example ==
    /\ call.op = "get_conversation_history" /\ call.max_turns = <<>>
    /\ [i \in 1..Len(call.log) |-> call.log[i].author]
         = <<"user", "agent", "user", "user", "agent">>
    /\ Len(call.out) = 3
    /\ call.out[1].user.id = "0" /\ call.out[1].agent.id = "1"
    /\ call.out[2].user.id = "2" /\ call.out[2].agent = None
    /\ call.out[3].user.id = "3" /\ call.out[3].agent.id = "4"

\* C19: with max_turns = N supplied, N = 0 and N beyond the number of turns
\* included, get_conversation_history returns at most N turns, and they are
\* the last N turns of the result without max_turns, in the same order.
C19_MaxTurnsKeepsMostRecent ==
    (call.op = "get_conversation_history" /\ call.max_turns # <<>>)
    => LET N == call.max_turns[1]
           uncapped == get_conversation_history(call.log, <<>>)
           kept == Min(N, Len(uncapped))
       IN  /\ Len(call.out) <= N
           /\ call.out = SubSeq(uncapped, Len(uncapped) - kept + 1, Len(uncapped))

(***************************************************************************)
(* Properties of the AgentServiceFactory                                   *)
(***************************************************************************)

EnabledAgents ==
    {a \in DOMAIN ConfiguredAgents : ConfiguredAgents[a].enabled}

\* C20: for every enabled configured agent, all successful
\* get_agent_service calls have returned one and the same handle, the one
\* the cache holds; the cache has never held another handle for the agent;
\* and when no construction failed, the construction has run exactly once
\* however many calls succeeded.
C20_OneHandlePerAgent ==
    \A a \in EnabledAgents :
        /\ Cardinality(factory.returned[a]) <= 1
        /\ Cardinality(factory.cached[a]) <= 1
        /\ factory.returned[a] \subseteq factory.cached[a]
        /\ a \in DOMAIN factory.services => factory.cached[a] = {factory.services[a]}
        /\ factory.returned[a] # {}
           => /\ a \in DOMAIN factory.services
              /\ ~factory.failed[a] => factory.built[a] = 1

\* X was served from the cache after W had been constructed too: the last
\* call returned X's handle of the first construction without constructing.
C20_Witness ==
    /\ factory.last.agent_id = "X" /\ factory.last.err = "none"
    /\ factory.last.handle = AgentServiceObject("X", 1)
    /\ factory.returned["X"] = {AgentServiceObject("X", 1)}
    /\ factory.built["X"] = 1
    /\ "W" \in DOMAIN factory.services

\* C21: get_agent_service fails with AgentNotFoundError (status 404) for an
\* id without configuration entry, and with AgentEngineError for a disabled
\* entry and for a construction that throws; a failed call leaves the cache
\* as it was, without the id, so that the next call for the id constructs
\* again: an id that failed in construction and is cached now has been
\* constructed at least twice.
C21_FactoryFailures ==
    LET a == factory.last.agent_id
        before == factory.last.services_before
        hit == a \in DOMAIN before
        config == get_agent_config(a)
    IN  a # ""
        => /\ (~hit /\ config = None)
              => /\ factory.last.err = "AgentNotFoundError"
                 /\ factory.last.status_code = 404
           /\ (~hit /\ config # None /\ ~config.enabled)
              => factory.last.err = "AgentEngineError"
           /\ (~hit /\ config # None /\ config.enabled /\ ~factory.last.init_ok)
              => factory.last.err = "AgentEngineError"
           /\ (~hit /\ config # None /\ config.enabled /\ factory.last.init_ok)
              => /\ factory.last.err = "none"
                 /\ factory.built[a] = factory.last.built_before[a] + 1
           /\ factory.last.err # "none"
              => /\ factory.services = before
                 /\ a \notin DOMAIN factory.services
           /\ \A x \in AgentIds :
                (factory.failed[x] /\ x \in DOMAIN factory.services)
                => factory.built[x] >= 2

\* X's construction threw once and the next call constructed X again.
C21_Witness ==
    /\ factory.failed["X"]
    /\ factory.last.agent_id = "X" /\ factory.last.err = "none"
    /\ factory.last.services_before = <<>>
    /\ factory.built["X"] = 2
    /\ factory.services["X"] = AgentServiceObject("X", 2)

ExpectedRoster ==
    [i \in 1..Len(SettingsAgents) |->
        [f \in {"agent_id", "name", "display_name", "description", "enabled"}
            |-> SettingsAgents[i][f]]]

\* list_agents alone: a call returns the whole roster, disabled agents
\* included, whatever the cache holds, and leaves cache and constructions
\* as they were.
ListAgentsIsPureRead ==
    factory.last.op = "list_agents"
    => /\ factory.last.out = ExpectedRoster
       /\ factory.services = factory.last.services_before
       /\ factory.built = factory.last.built_before

\* C23: list_agents returns the whole configured roster in configuration
\* order whatever the cache holds, constructs nothing and leaves the cache
\* unchanged; and GET /agents answers 200 with that list.
C23_ListAgentsRoster ==
    /\ ListAgentsIsPureRead
    /\ factory.last.op = "GET /api/v1/agents"
       => /\ factory.last.status_code = 200
          /\ factory.last.out = ExpectedRoster
          /\ factory.services = factory.last.services_before
          /\ factory.built = factory.last.built_before

(***************************************************************************)
(* Keepalive pings                                                         *)
(***************************************************************************)

\* The frames of the wrapped generator among what the wrapper has yielded.
ForwardedFrames ==
    SelectSeq(keepalive.out, LAMBDA frame : frame.event = "message")

\* C24: whenever the wrapper waited at least keepalive_interval for a frame
\* of the wrapped generator, it yielded a ping during that wait, before the
\* frame.
C24_PingInEveryIdleGap ==
    \A i \in 1..Len(keepalive.out) :
        LET frame == keepalive.out[i]
        IN  (/\ frame.event = "message"
             /\ frame.at - frame.asked_at >= keepalive.interval)
            => /\ i > 1
               /\ keepalive.out[i - 1].event = "ping"
               /\ keepalive.out[i - 1].at > frame.asked_at
               /\ keepalive.out[i - 1].at <= frame.at

\* Every ping the wrapper yields follows a frame of the wrapped generator
\* whose consumer took at least keepalive_interval to ask for the next item,
\* and comes keepalive_interval after that request.
PingOnlyAfterSlowConsumer ==
    \A i \in 1..Len(keepalive.out) :
        keepalive.out[i].event = "ping"
        => /\ i > 1
           /\ keepalive.out[i - 1].event = "message"
           /\ keepalive.out[i].at
                >= keepalive.out[i - 1].at + 2 * keepalive.interval

\* The wrapper forwards the frames of the wrapped generator once each and in
\* order.
FramesForwardedInOrder ==
    /\ Len(ForwardedFrames)
         = keepalive.produced - (IF keepalive.ready THEN 1 ELSE 0)
    /\ \A i \in 1..Len(ForwardedFrames) : ForwardedFrames[i].n = i

\* C25: real frames are forwarded once each, in order, and the wrapper never
\* sleeps for a ping while a frame of the wrapped generator is available or
\* before it has asked the wrapped generator for the next one.
C25_PingsNeverDelayFrames ==
    /\ FramesForwardedInOrder
    /\ keepalive.pc = "sleeping"
       => /\ ~keepalive.ready
          /\ keepalive.asked

(***************************************************************************)
(* Sessions created under a caller-supplied id                             *)
(***************************************************************************)

\* C27: the session that create_session_with_id returns carries the id the
\* caller supplied, and get_session with that id then returns this session.
C27_CreatedUnderTheSuppliedId ==
    result.op = "create_session_with_id"
    => /\ result.session.session_id = result.requested
       /\ get_session(sessions, result.requested, result.user_id)
            = [err |-> "none", session |-> result.session]

\* The session create_session_with_id returns is the one the backend made,
\* under the id the backend assigned, and it is that id get_session finds.
CreatedUnderTheBackendId ==
    result.op = "create_session_with_id"
    => /\ result.session.session_id = result.sid
       /\ get_session(sessions, result.sid, result.user_id)
            = [err |-> "none", session |-> result.session]
       /\ result.requested # result.sid
          => get_session(sessions, result.requested, result.user_id).err
                = "SessionNotFoundError"

(***************************************************************************)
(* HTTP error responses                                                    *)
(***************************************************************************)

\* A body of the shape {error: {message, type, details}}.
IsStructuredError(body) ==
    /\ DOMAIN body = {"error"}
    /\ DOMAIN body.error = {"message", "type", "details"}

\* C26: every error answer of a session or event endpoint carries the body
\* {error: {message, type, details}}, whatever the kind of error.
C26_ErrorsCarryStructuredBody ==
    result.err # "none" => IsStructuredError(result.response.body)

\* Every error answer of these endpoints is the framework's answer to an
\* HTTPException: the body {detail: <message of the error>}, under the
\* status the route's except clause chose.
ErrorsCarryDetailBody ==
    result.err # "none"
    => /\ result.response.body = [detail |-> error_message(result.err, result.sid)]
       /\ result.response.status_code = route_status(result.op, result.err)
       /\ result.response.status_code \in {400, 404, 500}

\* The two handlers of app/core/errors.py build the structured body for
\* every kind of error; they are installed nowhere.
HandlersBuildStructuredBody ==
    \A err \in {"AgentNotFoundError", "SessionNotFoundError",
                "InvalidStateUpdateError", "EventAppendError",
                "AgentEngineError", "PermissionError"} :
        /\ IsStructuredError(adk_proxy_error_handler(err, "s1").body)
        /\ IsStructuredError(general_exception_handler(err, "/").body)

(***************************************************************************)
(* What list_events pulls and normalizes                                   *)
(***************************************************************************)

\* C28: with offset o and limit l >= 1, list_events takes at most o + l
\* items from the backend iterator, takes none after the one that completes
\* the l events, and normalizes exactly the events it returns: none of the o
\* skipped ones and none past the limit.
C28_PullsNoMoreThanTheWindow ==
    (call.op = "list_events" /\ call.limit >= 1)
    => /\ call.pulled <= call.offset + call.limit
       /\ Len(call.out) = call.limit => call.pulled = call.offset + call.limit
       /\ call.normalized
            = [j \in 1..Len(call.out) |-> call.offset + j]
       /\ \A j \in 1..Len(call.out) :
            call.out[j] = adk_event_to_dict(call.log[call.normalized[j]])

\* A call that skips events, fills its limit and leaves items in the
\* iterator: offset 2, limit 3 on ten events takes five items.
C28_Witness ==
    /\ call.op = "list_events"
    /\ Len(call.log) = 10 /\ call.offset = 2 /\ call.limit = 3
    /\ call.pulled = 5
    /\ call.normalized = <<3, 4, 5>>

\* C29: whenever a limit is supplied to list_events, 0 included, the call
\* returns at most limit events.
C29_NeverMoreThanLimit ==
    (call.op = "list_events" /\ call.limit_arg # None)
    => Len(call.out) <= call.limit_arg[1]

\* For every limit of at least 1 the call returns at most limit events.
NeverMoreThanPositiveLimit ==
    (call.op = "list_events" /\ call.limit >= 1)
    => Len(call.out) <= call.limit

(***************************************************************************)
(* Which agent message a turn keeps                                        *)
(***************************************************************************)

\* The largest and the smallest member of a non-empty set of positions.
MaxOf(S) == CHOOSE i \in S : \A j \in S : j <= i

MinOf(S) == CHOOSE i \in S : \A j \in S : i <= j

\* C30: the agent slot of each turn holds the first agent or model event
\* that follows the turn's user event and precedes the next user event;
\* further agent or model events of the turn do not replace it.
C30_AgentSlotHoldsFirstReply ==
    (call.op = "get_conversation_history" /\ call.max_turns = <<>>)
    => \A k \in 1..Len(UserPositions) :
            (k <= Len(call.out) /\ AgentPositionsAfter(k) # {})
            => call.out[k].agent
                 = adk_event_to_dict(call.log[MinOf(AgentPositionsAfter(k))])

\* The agent slot of each turn holds the last agent or model event between
\* the turn's user event and the next user event.
AgentSlotHoldsLastReply ==
    (call.op = "get_conversation_history" /\ call.max_turns = <<>>)
    => \A k \in 1..Len(UserPositions) :
            (k <= Len(call.out) /\ AgentPositionsAfter(k) # {})
            => call.out[k].agent
                 = adk_event_to_dict(call.log[MaxOf(AgentPositionsAfter(k))])

(***************************************************************************)
(* Deleted sessions                                                        *)
(***************************************************************************)

DeletedIsFinal ==
    [][\A sid \in SessionIds :
          sessions[sid].status = "deleted" => sessions'[sid].status = "deleted"]_vars

C31_WitnessListing ==
    /\ result.op = "list_sessions"
    /\ sessions["s1"].status = "deleted"
    /\ result.listed.sessions = <<>>

(***************************************************************************)
(* Paged listing of a session's events                                     *)
(***************************************************************************)

\* C32: a page of list_events_async that does not reach the end of the
\* session's log carries a next_page_token, so that the pages followed by
\* their tokens cover the log, each event once and in order.
C32_ShortPageCarriesToken ==
    (result.op = "list_events" /\ result.err = "none"
       /\ Len(result.events) < Len(sessions[result.sid].events))
    => result.next_page_token # ""

\* Every page is the first page_size events of the log, whatever token the
\* caller sent, and carries no token.
EveryPageIsTheFirstPage ==
    (result.op = "list_events" /\ result.err = "none")
    => /\ result.next_page_token = ""
       /\ result.events
            = list_events_async(sessions, result.sid, result.page_size, "").events
       /\ \A i \in 1..Len(result.events) :
            result.events[i] = sessions[result.sid].events[i]

(***************************************************************************)
(* Cancellation of a stream                                                *)
(***************************************************************************)

\* C33: once the consumer of stream_query has closed the stream, the
\* generator takes no further event from the backend stream, yields no
\* further frame and stays ended.
C33_NothingAfterClose ==
    [][pc = "closed"
       => /\ received' = received
          /\ frames' = frames
          /\ backend' = backend
          /\ pc' = "closed"]_vars

\* A stream closed mid-stream: an event was delivered, the backend stream
\* had more to give.
C33_Witness ==
    /\ pc = "closed"
    /\ Len(received) = 1
    /\ Len(frames) = 1
    /\ backend = "open"

(***************************************************************************)
(* update_state(replace=True) among other writers                          *)
(***************************************************************************)

\* The state the caller of a replacing update asked for: the entries of its
\* delta that are not null.
AskedState(D) == [k \in {j \in DOMAIN D : D[j] # Null} |-> D[k]]

\* C34: in every interleaving with other writers of the session, right
\* after the event of an update_state(replace=True) is appended the
\* session's state is exactly the caller's delta; a key another request
\* wrote between the call's fetch and its append does not survive.
C34_ReplaceIsAtomic ==
    (update.pc = "appended"
       /\ Len(sessions[update.sid].events) = update.appended_count)
    => sessions[update.sid].state = AskedState(update.request.state_delta)

\* When nothing was appended to the session between the fetch and the
\* append of the call, the state right after the append is the caller's
\* delta.
ReplaceUndisturbedIsExact ==
    (update.pc = "appended"
       /\ Len(sessions[update.sid].events) = update.appended_count
       /\ update.appended_count = update.fetched_count + 1)
    => sessions[update.sid].state = AskedState(update.request.state_delta)

(***************************************************************************)
(* Failed writes and writes by other users                                 *)
(***************************************************************************)

\* The session of the last call is as it was when the call began.
SessionUntouched ==
    /\ sessions[result.sid].status = result.before_status
    /\ sessions[result.sid].state = result.before_state
    /\ sessions[result.sid].events = result.before_events

\* C35: an update_state or append_event that ends with an error leaves the
\* session's event log and state as they were; its event is not appended.
C35_FailedCallAppendsNothing ==
    (result.op \in {"update_state", "append_event"} /\ result.err # "none")
    => SessionUntouched

\* A call that fails leaves the session as it was unless it is an
\* update_state(replace=False) by a user other than the owner of a live
\* session, whose event the backend accepted.
FailedCallAppendsNothingForOwner ==
    (result.op \in {"update_state", "append_event"} /\ result.err # "none")
    => \/ SessionUntouched
       \/ /\ result.op = "update_state" /\ ~result.replace
          /\ result.before_status = "live"
          /\ result.user_id # result.before_owner
          /\ Len(sessions[result.sid].events) = result.before_count + 1

\* C36: update_state, with replace false or true, and delete_session called
\* with a user_id other than the owner's leave the session as it was: same
\* state, same event log, not deleted.
C36_OnlyTheOwnerWrites ==
    (result.op \in {"update_state", "delete_session"}
       /\ result.before_status = "live"
       /\ result.user_id # result.before_owner)
    => SessionUntouched

\* delete_session and update_state(replace=True) by another user are
\* refused and leave the session as it was.
OtherUserCannotDeleteOrReplace ==
    (/\ \/ result.op = "delete_session"
        \/ result.op = "update_state" /\ result.replace
     /\ result.before_status = "live"
     /\ result.user_id # result.before_owner)
    => /\ SessionUntouched
       /\ result.err # "none"

(***************************************************************************)
(* Handles returned by racing get_agent_service calls                      *)
(***************************************************************************)

ReturnedHandleWasCached ==
    [][\A r \in Requests :
         (race.pc[r] # "returned" /\ race'.pc[r] = "returned")
         => race'.handle[r] = dict_get(race'.entries, race'.agent_id[r])]_vars

(***************************************************************************)
(* The order of the two events of a turn                                   *)
(***************************************************************************)

\* The position in the log of the call of an event a turn holds.
PositionOf(event_dict) ==
    CHOOSE p \in 1..Len(call.log) : adk_event_to_dict(call.log[p]) = event_dict

\* C38: every turn get_conversation_history returns has its user slot
\* filled, and an agent slot that is filled holds an event that comes after
\* the turn's user event in the log; an agent or model event from before
\* the first user event is in no turn.
C38_AgentFollowsItsUser ==
    call.op = "get_conversation_history"
    => \A k \in 1..Len(call.out) :
            /\ call.out[k].user # None
            /\ call.out[k].agent # None
               => PositionOf(call.out[k].agent) > PositionOf(call.out[k].user)

\* Every turn has its user slot filled, and the agent slot of every turn
\* but the first, when filled, holds an event that follows the turn's user
\* event.
AgentFollowsItsUserAfterFirstTurn ==
    (call.op = "get_conversation_history" /\ call.max_turns = <<>>)
    => \A k \in 1..Len(call.out) :
            /\ call.out[k].user # None
            /\ (k > 1 /\ call.out[k].agent # None)
               => PositionOf(call.out[k].agent) > PositionOf(call.out[k].user)

(***************************************************************************)
(* What the handle cache holds                                             *)
(***************************************************************************)

\* C39: every key of the handle cache is the agent_id of a configured,
\* enabled agent and maps to a handle built for that agent, and
\* get_agent_service has returned no handle for a disabled or unconfigured
\* agent_id.
C39_CacheHoldsEnabledAgentsOnly ==
    /\ \A a \in DOMAIN factory.services :
            /\ get_agent_config(a) # None
            /\ get_agent_config(a).enabled
            /\ factory.services[a].agent_id = a
    /\ \A a \in AgentIds :
            factory.returned[a] # {}
            => /\ a \in EnabledAgents
               /\ \A handle \in factory.returned[a] : handle.agent_id = a
    /\ (factory.last.op = "get_agent_service"
        /\ factory.last.agent_id \notin EnabledAgents)
       => /\ factory.last.handle = None
          /\ factory.last.err # "none"

\* Both enabled agents are cached, and the disabled agent has just been
\* asked for and refused.
C39_Witness ==
    /\ DOMAIN factory.services = {"X", "W"}
    /\ factory.last.op = "get_agent_service"
    /\ factory.last.agent_id = "Y"
    /\ factory.last.err = "AgentEngineError"
    /\ factory.returned["Y"] = {}

====
